---- MODULE Spec2Model ----
(***************************************************************************)
(* ToolHive workload runtime plane.                                        *)
(*                                                                         *)
(* Six state machines share this module, each with its own specification: *)
(*   Spec          the HTTP/SSE bridge (HTTPSSEProxy) together with the    *)
(*                 stdout reader and the stdin dispatcher of the stdio     *)
(*                 transport                                               *)
(*   SpecPost      POST /messages requests against the session registry    *)
(*   SpecStop      concurrent StdioTransport.Stop calls                    *)
(*   SpecDeploy    the Docker client reconciler (DeployWorkload,           *)
(*                 StopWorkload, RemoveWorkload) against a container engine*)
(*   SpecSanitize  dirty-byte recovery on one stdout line                  *)
(*   SpecACL       generation of the egress proxy ACL document             *)
(* A specification leaves the variables of the other machines unchanged.   *)
(***************************************************************************)
EXTENDS Integers, Sequences, FiniteSets, TLC

(***************************************************************************)
(* Bounds of the model.                                                    *)
(***************************************************************************)
\* stdout lines the container emits in one run of the bridge
MaxLines == 2
\* GET /sse connections in one run of the bridge
MaxClients == 2
\* capacity of one SSE client's MessageCh (100 in the code, scaled down)
QueueCap == 1
\* POST /messages requests in one run of the bridge
MaxPosts == 3
\* capacity of messageCh, the inbound channel (100 in the code, scaled down)
MsgChCap == 1
\* characters of a stdout line in SpecSanitize
MaxLineLen == 5
\* entries of allow_host in SpecACL
MaxHosts == 2
\* external callers of StdioTransport.Stop in SpecStop
MaxStopCalls == 2
\* calls of DeployWorkload in SpecDeploy
MaxDeploys == 2
\* calls of StdioTransport.Start in SpecLifecycle
MaxStarts == 1
\* calls of StdioTransport.IsRunning in SpecLifecycle
MaxProbes == 2
\* middlewares of the proxy in SpecChain
MaxMiddlewares == 2
\* requests the server receives in SpecChain
MaxRequests == 3
\* containers the engine lists to an external command
MaxListed == 2
\* ticks of one Monitor that find the container running or fail to inspect it
MaxTicks == 2
\* lines the container writes to its stdout in SpecStdout
MaxStreamLines == 2
\* bytes one Read of the stdout returns in SpecStdout
MaxChunk == 5
MaxMonitorCalls == 4

(***************************************************************************)
(* Generic helpers.                                                        *)
(***************************************************************************)
Range(s) == {s[i] : i \in 1..Len(s)}

SeqsUpTo(S, n) == UNION {[1..k -> S] : k \in 0..n}

NoDup(s) == \A i, j \in 1..Len(s) : i # j => s[i] # s[j]

\* <<a+1, ..., b>>, empty when b <= a
Interval(a, b) == [i \in 1..(IF b > a THEN b - a ELSE 0) |-> a + i]

(***************************************************************************)
(* Stdout lines.  A line is a sequence of characters of six classes:       *)
(*   "{" "}"  braces                                                       *)
(*   "a"      a printable character other than a brace or a space          *)
(*   " "      the ASCII space                                              *)
(*   "x"      a control byte: not printable, not legal inside JSON         *)
(*   "u"      a rune that unicode.IsPrint rejects but JSON allows inside   *)
(*            a string (U+00A0, U+200B, ...)                               *)
(* Every object of the model carries the "jsonrpc":"2.0" tag, so a valid   *)
(* object is a valid JSON-RPC message.                                     *)
(***************************************************************************)
Chars == {"{", "}", "a", " ", "x", "u"}

IsPrint(c) == c \in {"{", "}", "a", " "}

isSpace(c) == c \in {" ", "\n"}

RECURSIVE Balanced(_, _, _)
\* s[i..] closes the braces opened so far (d of them) exactly at its last character
Balanced(s, i, d) ==
    IF i > Len(s) THEN d = 0
    ELSE IF s[i] = "{" THEN Balanced(s, i + 1, d + 1)
    ELSE IF s[i] = "}" THEN
        IF d = 0 THEN FALSE
        ELSE IF d = 1 THEN i = Len(s)
        ELSE Balanced(s, i + 1, d - 1)
    ELSE IF s[i] = "x" THEN FALSE
    ELSE d > 0 /\ Balanced(s, i + 1, d)

\* s is the text of one JSON object
ValidJSON(s) == Len(s) >= 2 /\ s[1] = "{" /\ Balanced(s, 1, 0)

RECURSIVE TrimLeft(_)
TrimLeft(s) == IF s # <<>> /\ s[1] = " " THEN TrimLeft(Tail(s)) ELSE s

RECURSIVE TrimRight(_)
TrimRight(s) ==
    IF s # <<>> /\ s[Len(s)] = " " THEN TrimRight(SubSeq(s, 1, Len(s) - 1)) ELSE s

NoMessage == <<"error">>

\* jsonrpc2.DecodeMessage: json.Unmarshal skips the white space around the
\* value and fails on anything else; the result is the message or an error
DecodeMessage(data) ==
    LET t == TrimRight(TrimLeft(data))
    IN  IF ValidJSON(t) THEN t ELSE NoMessage

Index(s, c) ==
    IF \E i \in 1..Len(s) : s[i] = c
    THEN CHOOSE i \in 1..Len(s) : s[i] = c /\ \A j \in 1..(i - 1) : s[j] # c
    ELSE 0

LastIndex(s, c) ==
    IF \E i \in 1..Len(s) : s[i] = c
    THEN CHOOSE i \in 1..Len(s) : s[i] = c /\ \A j \in (i + 1)..Len(s) : s[j] # c
    ELSE 0

KeepRune(c) == IsPrint(c) \/ isSpace(c)

sanitizeBinaryString_FirstClose(input) ==
    LET startIdx == Index(input, "{")
        endIdx   == Index(input, "}")
    IN  IF startIdx = 0 THEN <<>>
        ELSE IF endIdx = 0 \/ endIdx < startIdx THEN <<>>
        ELSE SelectSeq(SubSeq(input, startIdx, endIdx), KeepRune)

sanitizeBinaryString(input) ==
    LET startIdx == Index(input, "{")
        endIdx   == LastIndex(input, "}")
    IN  IF startIdx = 0 THEN <<>>
        ELSE IF endIdx = 0 \/ endIdx < startIdx THEN <<>>
        ELSE SelectSeq(SubSeq(input, startIdx, endIdx), KeepRune)

sanitizeJSONString(input) == sanitizeBinaryString(input)

hasBinaryData(line) == \E i \in 1..Len(line) : ~IsPrint(line[i]) /\ ~isSpace(line[i])

\* the text parseAndForwardJSONRPC hands to the decoder
jsonData(line) == IF hasBinaryData(line) THEN sanitizeJSONString(line) ELSE line

\* parseAndForwardJSONRPC up to the decode: the message forwarded for a
\* line, or NoMessage when the line is logged and dropped
parseLine(line) == DecodeMessage(jsonData(line))


(***************************************************************************)
(* State of the machines other than the bridge.                            *)
(***************************************************************************)
VARIABLES
    stdoutLine,       \* SpecSanitize: the stdout line handed to parseAndForwardJSONRPC
    forwarded,        \* SpecSanitize: the messages forwarded for it
    linePC,           \* SpecSanitize: "read" before the call, "done" after
    aclIn,            \* SpecACL: the arguments of createTempSquidConf
    squidConf,        \* SpecACL: the document written to the temporary file
    aclPC             \* SpecACL: "call", "done" or "panicked"

lineVars == <<stdoutLine, forwarded, linePC>>

aclVars == <<aclIn, squidConf, aclPC>>

VARIABLES
    shutdownCh,       \* SpecStop: t.shutdownCh is closed
    mutex,            \* SpecStop: t.mutex is locked
    monitor,          \* SpecStop: t.monitor is not nil
    stdin,            \* SpecStop: t.stdin is not nil
    httpProxy,        \* SpecStop: t.httpProxy is not nil
    proxyShutdownCh,  \* SpecStop: HTTPSSEProxy.shutdownCh is closed
    stopCh,           \* SpecStop: Monitor.stopCh is closed
    monRunning,       \* SpecStop: Monitor.running
    monitorPC,        \* SpecStop: the goroutine Monitor.monitor
    errorCh,          \* SpecStop: content of Monitor.errorCh (capacity 1)
    containerUp,      \* SpecStop: the container is running
    stPC,             \* SpecStop: caller -> position in Stop
    exitPC,           \* SpecStop: position of handleContainerExit
    stopPanicked,     \* SpecStop: a goroutine panicked
    teardown,         \* SpecStop, ghost: teardown step -> times executed
    did,              \* SpecStop, ghost: caller -> teardown steps it executed
    sawClosed,        \* SpecStop, ghost: caller -> it observed the closed sentinel
    history,          \* SpecLifecycle, ghost: what Start and IsRunning returned, in order
    ticks,            \* ghost: the ticks of the current Monitor that sent nothing
    eventsSent        \* ghost: the events the current Monitor has put on its errorCh

monVars == <<ticks, eventsSent>>

stopVars ==
    <<shutdownCh, mutex, monitor, stdin, httpProxy, proxyShutdownCh, stopCh, monRunning,
      monitorPC, errorCh, containerUp, stPC, exitPC, stopPanicked, teardown, did, sawClosed,
      history, monVars>>

VARIABLES
    engine,           \* SpecDeploy: the containers and networks of the engine, with the
                      \* calls the last API call issued on it
    emptyIdNotFound,  \* SpecDeploy: the client library answers an empty container id
                      \* with "not found" (else with "invalid parameter")
    deployCount,      \* SpecDeploy: calls of DeployWorkload so far
    lastCall,         \* SpecDeploy, ghost: the last API call, what it returned and
                      \* what the engine held for the workload before it
    inCall            \* SpecRace: workload -> the call on it that is under way

deployVars == <<engine, emptyIdNotFound, deployCount, lastCall, inCall>>

VARIABLES
    serverPC,         \* HTTPSSEProxy.Stop: "serving", "shutdown" (inside
                      \* server.Shutdown), "stopped" or "deadline" (it has returned)
    written,          \* ghost: handler -> the events written to its SSE stream
    middlewares,      \* p.middlewares
    lastReq,          \* SpecChain, ghost: the request the mux routed last
    admitted          \* SpecChain: path -> requests for which the chain called the handler

srvVars == <<serverPC, written, middlewares, lastReq, admitted>>

VARIABLES
    containers,       \* SpecResolve: what runtime.ListContainers returns, in its order
    resolved          \* SpecResolve: the last external command and the container it chose

cliVars == <<containers, resolved>>

VARIABLES
    stdout,           \* SpecStdout: the bytes of the container's stdout not yet read
    buffer,           \* SpecStdout: the bytes.Buffer of processStdout
    consumed,         \* ghost: the bytes read so far
    handed,           \* ghost: the lines handed to parseAndForwardJSONRPC, in order
    delivered,        \* ghost: the messages handed to ForwardResponseToClients, in order
    joined            \* ghost: the reads that completed a line begun by an earlier read

rdVars == <<stdout, buffer, consumed, handed, delivered, joined>>

VARIABLES
    m_running,        \* SpecMonitor: Monitor.running
    m_stopCh,         \* SpecMonitor: Monitor.stopCh is closed
    m_errorCh,        \* SpecMonitor: content of Monitor.errorCh (capacity 1)
    m_wg,             \* SpecMonitor: the counter of Monitor.wg, the live monitor goroutines
    m_mutex,          \* SpecMonitor: Monitor.mutex is held by a StopMonitoring in wg.Wait
    m_up,             \* SpecMonitor: the container is running
    m_panicked,       \* SpecMonitor: a call panicked
    m_calls,          \* ghost: the calls of StartMonitoring and StopMonitoring made
    m_closes,         \* ghost: the executions of close(m.stopCh)
    m_ticks           \* ghost: the ticks that sent nothing

mnVars ==
    <<m_running, m_stopCh, m_errorCh, m_wg, m_mutex, m_up, m_panicked, m_calls, m_closes,
      m_ticks>>

VARIABLES
    t_start,          \* SpecTasks: what StdioTransport.Start returned
    t_listener,       \* SpecTasks: the HTTP server of the proxy
    t_pm,             \* SpecTasks: the goroutine processMessages
    t_waiter,         \* SpecTasks: the goroutine of processMessages that waits for shutdownCh
    t_reader,         \* SpecTasks: the goroutine processStdout
    t_poller,         \* SpecTasks: the goroutine Monitor.monitor
    t_exit,           \* SpecTasks: the goroutine handleContainerExit
    t_caller,         \* SpecTasks: the owner's call of Stop
    t_ctx,            \* SpecTasks: the context given to Start is cancelled
    t_pctx,           \* SpecTasks: cancel of the context of processMessages was called
    t_shutdownCh,     \* SpecTasks: t.shutdownCh is closed
    t_stopCh,         \* SpecTasks: the stopCh of t.monitor is closed
    t_monitor,        \* SpecTasks: t.monitor is not nil
    t_errorCh,        \* SpecTasks: content of the errorCh of t.monitor
    t_up,             \* SpecTasks: the container is running
    t_stopped         \* ghost: a Stop that closed shutdownCh has returned

taskVars ==
    <<t_start, t_listener, t_pm, t_waiter, t_reader, t_poller, t_exit, t_caller, t_ctx,
      t_pctx, t_shutdownCh, t_stopCh, t_monitor, t_errorCh, t_up, t_stopped>>

runVars == <<mnVars, taskVars>>

otherVars == <<lineVars, aclVars, stopVars, deployVars, srvVars, cliVars, rdVars, runVars>>

(***************************************************************************)
(* The HTTP/SSE bridge: HTTPSSEProxy, with the stdout reader and the stdin *)
(* dispatcher of StdioTransport.                                           *)
(*                                                                         *)
(* A handler h is one GET /sse request; its client id is <<"uuid", h>>.    *)
(* An element of a client queue is [n |-> k, via |-> v]: the k-th message  *)
(* parsed from stdout, placed by the fan-out (v = "live") or by the drain  *)
(* of the pending list (v = "pend"); via is a ghost field.                 *)
(*                                                                         *)
(* Steps are cut where a goroutine touches shared state.  hPC[h] follows   *)
(* handleSSEConnection and then its disconnect goroutine:                  *)
(*   "none"       the request has not arrived                              *)
(*   "pending"    registered, before processPendingMessages                *)
(*   "drain"      inside the loop of processPendingMessages                *)
(*   "stream"     endpoint event written, in the select loop               *)
(*   "cancelled"  the context is done and the handler has returned; the    *)
(*                disconnect goroutine is about to delete the client       *)
(*   "closing"    the goroutine has deleted the client, before close()     *)
(*   "done"       the goroutine has ended                                  *)
(*   "panicked"   the handler panicked (recovered by net/http)             *)
(* A handler whose context is cancelled returns without taking further     *)
(* messages: what it would take between the cancellation and its return    *)
(* is the same as taking it before a later cancellation.                   *)
(***************************************************************************)
VARIABLES
    sseClients,       \* handlers whose client is in p.sseClients
    clientsLock,      \* holder of sseClientsMutex across steps: "free" or "reader"
    pendingMessages,  \* p.pendingMessages
    pendLock,         \* holder of pendingMutex across steps: 0 or a handler
    MessageCh,        \* handler -> content of its client's MessageCh
    chClosed,         \* handler -> its MessageCh has been closed
    hPC,              \* handler -> position in handleSSEConnection
    drainIdx,         \* handler -> index of processPendingMessages' loop
    rdPC,             \* position of the stdout reader
    cur,              \* the message the reader is forwarding
    todo,             \* clients sendSSEEvent's loop has yet to visit
    linesRead,        \* stdout lines read so far
    parsedCount,      \* stdout lines parsed successfully so far
    responseCh,       \* p.responseCh
    crashed,          \* a goroutine panicked outside an HTTP handler
    received,         \* ghost: handler -> what it took from its MessageCh
    regAfter,         \* ghost: handler -> parsedCount when it registered
    drainSnap,        \* ghost: handler -> pending list when its drain began
    evictedAt,        \* ghost: handler -> the message whose fan-out evicted it, or 0
    regPend,          \* ghost: handler -> pending list when it registered
    messageCh,        \* p.messageCh, the inbound channel
    stdinLog,         \* ghost: the messages written to the container's stdin
    stdinData,        \* the bytes written to the container's stdin
    accepted,         \* ghost: the messages placed on messageCh, in that order
    inFlight,         \* POST requests between the session check and the send
    postCount,        \* POST requests received so far
    lastPost,         \* ghost: the request answered last
    notFound,         \* ghost: requests whose session was not registered
    refused           \* ghost: requests answered 500 because messageCh was full

bridgeVars ==
    <<sseClients, clientsLock, pendingMessages, pendLock, MessageCh, chClosed, hPC,
      drainIdx, rdPC, cur, todo, linesRead, parsedCount, responseCh, crashed, received,
      regAfter, drainSnap, evictedAt, regPend>>

postVars ==
    <<messageCh, stdinLog, stdinData, accepted, inFlight, postCount, lastPost, notFound, refused>>

Handlers == 1..MaxClients

clientID(h) == <<"uuid", h>>

EmptySession == <<"", 0>>

BogusSession == <<"bogus", 0>>

SessionIds == {clientID(h) : h \in Handlers} \cup {EmptySession, BogusSession}

\* the lines the container writes in the bridge: a clean message, a dirty
\* line that recovery repairs, and a line that cannot be parsed
SampleLines == {<<"{", "a", "}">>, <<"x", "{", "a", "}">>, <<"a", "{", "a", "}">>}

NoPost == [r |-> 0, method |-> "", sid |-> EmptySession, body |-> "", registered |-> FALSE,
           status |-> 0]

InitBridge ==
    /\ sseClients = {}
    /\ clientsLock = "free"
    /\ pendingMessages = <<>>
    /\ pendLock = 0
    /\ MessageCh = [h \in Handlers |-> <<>>]
    /\ chClosed = [h \in Handlers |-> FALSE]
    /\ hPC = [h \in Handlers |-> "none"]
    /\ drainIdx = [h \in Handlers |-> 0]
    /\ rdPC = "idle"
    /\ cur = 0
    /\ todo = {}
    /\ linesRead = 0
    /\ parsedCount = 0
    /\ responseCh = <<>>
    /\ crashed = FALSE
    /\ received = [h \in Handlers |-> <<>>]
    /\ regAfter = [h \in Handlers |-> 0]
    /\ drainSnap = [h \in Handlers |-> <<>>]
    /\ evictedAt = [h \in Handlers |-> 0]
    /\ regPend = [h \in Handlers |-> <<>>]

InitPost ==
    /\ messageCh = <<>>
    /\ stdinLog = <<>>
    /\ stdinData = <<>>
    /\ accepted = <<>>
    /\ inFlight = {}
    /\ postCount = 0
    /\ lastPost = NoPost
    /\ notFound = {}
    /\ refused = {}

NoReq == [n |-> 0, path |-> "", rejecting |-> {}, trace |-> <<>>, status |-> 0]

\* NewHTTPSSEProxy, lines 73-84, without middlewares, and Start
InitServer ==
    /\ serverPC = "serving"
    /\ written = [h \in Handlers |-> <<>>]
    /\ middlewares = <<>>
    /\ lastReq = NoReq
    /\ admitted = [path \in {"/sse", "/messages"} |-> 0]

\* the frame of a step of handleSSEConnection that writes to the stream
StreamFrame ==
    UNCHANGED <<postVars, lineVars, aclVars, stopVars, deployVars, cliVars, rdVars, runVars, serverPC, middlewares,
                lastReq, admitted>>

endpointMsg_NoSession(h) == [event |-> "endpoint", data |-> EmptySession]

\* handleSSEConnection, lines 250-252: the endpoint event, whose URL ends
\* with the session id of the client
endpointMsg(h) == [event |-> "endpoint", data |-> clientID(h)]

\* the SSE event of a message taken from the client's channel
messageEvent(item) == [event |-> "message", data |-> item.n]

(*------------------------- GET /sse handler ----------------------------*)

\* handleSSEConnection, lines 217-229: a fresh id and channel, registered
\* under sseClientsMutex.  Ids are fresh uuids, so the connections are
\* numbered in the order of their registration.
handleSSEConnection_Register(h) ==
    /\ ~crashed
    /\ serverPC = "serving"
    /\ hPC[h] = "none"
    /\ \A g \in Handlers : g < h => hPC[g] # "none"
    /\ clientsLock = "free"
    /\ sseClients' = sseClients \cup {h}
    /\ hPC' = [hPC EXCEPT ![h] = "pending"]
    /\ regAfter' = [regAfter EXCEPT ![h] = parsedCount]
    /\ regPend' = [regPend EXCEPT ![h] = pendingMessages]
    /\ UNCHANGED <<clientsLock, pendingMessages, pendLock, MessageCh, chClosed, drainIdx,
                   rdPC, cur, todo, linesRead, parsedCount, responseCh, crashed, received,
                   drainSnap,
                   evictedAt>>
    /\ UNCHANGED <<postVars, otherVars>>

\* processPendingMessages, lines 372-377: takes pendingMutex; with an empty
\* list it returns at once, and the handler writes the endpoint event and
\* starts its disconnect goroutine (lines 234-273)
processPendingMessages_Begin(h) ==
    /\ ~crashed
    /\ hPC[h] = "pending"
    /\ pendLock = 0
    /\ drainSnap' = [drainSnap EXCEPT ![h] = pendingMessages]
    /\ IF pendingMessages = <<>>
       THEN /\ hPC' = [hPC EXCEPT ![h] = "stream"]
            /\ written' = [written EXCEPT ![h] = Append(@, endpointMsg(h))]
            /\ UNCHANGED <<pendLock, drainIdx>>
       ELSE /\ hPC' = [hPC EXCEPT ![h] = "drain"]
            /\ pendLock' = h
            /\ drainIdx' = [drainIdx EXCEPT ![h] = 1]
            /\ UNCHANGED written
    /\ UNCHANGED <<sseClients, clientsLock, pendingMessages, MessageCh, chClosed, rdPC,
                   cur, todo, linesRead, parsedCount, responseCh, crashed, received,
                   regAfter, evictedAt, regPend>>
    /\ StreamFrame

\* a non-blocking send on a client channel that has room
Enqueue(q, item) == Append(q, item)

\* a send without a default branch: it waits while the channel is full
selectDefault_None(ch) == Len(ch) < QueueCap

\* the select statements of lines 356-364 and 385-392 have a default
\* branch: with the channel ch full the goroutine does not wait
selectDefault(ch) == TRUE

\* processPendingMessages, lines 380-396: one iteration of the loop.  A send
\* on a closed channel panics; net/http recovers the panic of a handler and
\* the deferred Unlock runs.  On a full channel the function returns without
\* clearing the list.  After the function the handler writes the endpoint
\* event and starts its disconnect goroutine (lines 234-273).
processPendingMessages_Send(h) ==
    /\ ~crashed
    /\ hPC[h] = "drain"
    /\ pendLock = h
    /\ selectDefault(MessageCh[h])
    /\ LET m == pendingMessages[drainIdx[h]]
       IN  IF chClosed[h]
           THEN /\ hPC' = [hPC EXCEPT ![h] = "panicked"]
                /\ pendLock' = 0
                /\ UNCHANGED <<MessageCh, drainIdx, pendingMessages, written>>
           ELSE IF Len(MessageCh[h]) < QueueCap
           THEN /\ MessageCh' = [MessageCh EXCEPT
                                    ![h] = Enqueue(@, [n |-> m, via |-> "pend"])]
                /\ IF drainIdx[h] = Len(pendingMessages)
                   THEN /\ pendingMessages' = <<>>
                        /\ pendLock' = 0
                        /\ hPC' = [hPC EXCEPT ![h] = "stream"]
                        /\ written' = [written EXCEPT ![h] = Append(@, endpointMsg(h))]
                        /\ UNCHANGED drainIdx
                   ELSE /\ drainIdx' = [drainIdx EXCEPT ![h] = @ + 1]
                        /\ UNCHANGED <<pendingMessages, pendLock, hPC, written>>
           ELSE /\ hPC' = [hPC EXCEPT ![h] = "stream"]
                /\ written' = [written EXCEPT ![h] = Append(@, endpointMsg(h))]
                /\ pendLock' = 0
                /\ UNCHANGED <<MessageCh, drainIdx, pendingMessages>>
    /\ UNCHANGED <<sseClients, clientsLock, chClosed, rdPC, cur, todo, linesRead,
                   parsedCount, responseCh, crashed, received, regAfter, drainSnap,
                   evictedAt, regPend>>
    /\ StreamFrame

\* the client goes away: the request context is cancelled and the handler
\* returns through the ctx.Done() case of its select (lines 278-279)
ClientDisconnect(h) ==
    /\ ~crashed
    /\ hPC[h] = "stream"
    /\ hPC' = [hPC EXCEPT ![h] = "cancelled"]
    /\ UNCHANGED <<sseClients, clientsLock, pendingMessages, pendLock, MessageCh, chClosed,
                   drainIdx, rdPC, cur, todo, linesRead, parsedCount, responseCh, crashed,
                   received, regAfter, drainSnap,
                   evictedAt, regPend>>
    /\ UNCHANGED <<postVars, otherVars>>

\* handleSSEConnection, lines 280-285: a message is taken from the channel
\* and written to the client
handleSSEConnection_Recv(h) ==
    /\ ~crashed
    /\ hPC[h] = "stream"
    /\ MessageCh[h] # <<>>
    /\ received' = [received EXCEPT ![h] = Append(@, Head(MessageCh[h]))]
    /\ written' = [written EXCEPT ![h] = Append(@, messageEvent(Head(MessageCh[h])))]
    /\ MessageCh' = [MessageCh EXCEPT ![h] = Tail(@)]
    /\ UNCHANGED <<sseClients, clientsLock, pendingMessages, pendLock, chClosed, hPC,
                   drainIdx, rdPC, cur, todo, linesRead, parsedCount, responseCh, crashed,
                   regAfter, drainSnap,
                   evictedAt, regPend>>
    /\ StreamFrame

\* handleSSEConnection, lines 280-283: the channel is closed and empty, the
\* handler returns and its deferred cancel ends the context
handleSSEConnection_Return(h) ==
    /\ ~crashed
    /\ hPC[h] = "stream"
    /\ chClosed[h] /\ MessageCh[h] = <<>>
    /\ hPC' = [hPC EXCEPT ![h] = "cancelled"]
    /\ UNCHANGED <<sseClients, clientsLock, pendingMessages, pendLock, MessageCh, chClosed,
                   drainIdx, rdPC, cur, todo, linesRead, parsedCount, responseCh, crashed,
                   received, regAfter, drainSnap,
                   evictedAt, regPend>>
    /\ UNCHANGED <<postVars, otherVars>>

\* the disconnect goroutine, line 268: delete(p.sseClients, clientID)
unregister(clients, h) == clients \ {h}

\* the disconnect goroutine, lines 267-270: the client leaves the set
handleSSEConnection_MonitorDelete(h) ==
    /\ ~crashed
    /\ hPC[h] = "cancelled"
    /\ clientsLock = "free"
    /\ sseClients' = unregister(sseClients, h)
    /\ hPC' = [hPC EXCEPT ![h] = "closing"]
    /\ UNCHANGED <<clientsLock, pendingMessages, pendLock, MessageCh, chClosed, drainIdx,
                   rdPC, cur, todo, linesRead, parsedCount, responseCh, crashed, received,
                   regAfter, drainSnap,
                   evictedAt, regPend>>
    /\ UNCHANGED <<postVars, otherVars>>

\* the disconnect goroutine, line 271: close(messageCh); closing a closed
\* channel panics, and a panic in this goroutine ends the process
handleSSEConnection_MonitorClose(h) ==
    /\ ~crashed
    /\ hPC[h] = "closing"
    /\ hPC' = [hPC EXCEPT ![h] = "done"]
    /\ IF chClosed[h]
       THEN crashed' = TRUE /\ UNCHANGED chClosed
       ELSE chClosed' = [chClosed EXCEPT ![h] = TRUE] /\ UNCHANGED crashed
    /\ UNCHANGED <<sseClients, clientsLock, pendingMessages, pendLock, MessageCh, drainIdx,
                   rdPC, cur, todo, linesRead, parsedCount, responseCh, received, regAfter,
                   drainSnap,
                   evictedAt, regPend>>
    /\ UNCHANGED <<postVars, otherVars>>

(*--------------------------- stdout reader -----------------------------*)

\* capacity of responseCh
RespChCap == 100

\* SendResponseMessage: a non-blocking send on responseCh
SendResponseMessage(ch, msg) == IF Len(ch) < RespChCap THEN Append(ch, msg) ELSE ch

hasClients_Never(clients) == FALSE

\* ForwardResponseToClients, line 193
hasClients(clients) == clients # {}

\* processBuffer and parseAndForwardJSONRPC, lines 793-819: the next line of
\* stdout is decoded; a line that does not decode is logged and dropped
parseAndForwardJSONRPC(line) ==
    /\ ~crashed
    /\ rdPC = "idle"
    /\ linesRead < MaxLines
    /\ linesRead' = linesRead + 1
    /\ IF parseLine(line) # NoMessage
       THEN /\ parsedCount' = parsedCount + 1
            /\ cur' = parsedCount + 1
            /\ rdPC' = "check"
       ELSE UNCHANGED <<parsedCount, cur, rdPC>>
    /\ UNCHANGED <<sseClients, clientsLock, pendingMessages, pendLock, MessageCh, chClosed,
                   hPC, drainIdx, todo, responseCh, crashed, received, regAfter, drainSnap,
                   evictedAt, regPend>>
    /\ UNCHANGED <<postVars, otherVars>>

\* ForwardResponseToClients, lines 192-196: are there clients?
ForwardResponseToClients_Check ==
    /\ ~crashed
    /\ rdPC = "check"
    /\ clientsLock = "free"
    /\ rdPC' = IF hasClients(sseClients) THEN "fan" ELSE "append"
    /\ UNCHANGED <<sseClients, clientsLock, pendingMessages, pendLock, MessageCh, chClosed,
                   hPC, drainIdx, cur, todo, linesRead, parsedCount, responseCh, crashed,
                   received, regAfter, drainSnap,
                   evictedAt, regPend>>
    /\ UNCHANGED <<postVars, otherVars>>

\* sendSSEEvent, lines 352-355: sseClientsMutex is taken for the whole loop.
\* With no client left the function returns at once and
\* parseAndForwardJSONRPC sends the message to the response channel.
sendSSEEvent_Lock ==
    /\ ~crashed
    /\ rdPC = "fan"
    /\ clientsLock = "free"
    /\ todo' = sseClients
    /\ IF sseClients = {}
       THEN /\ rdPC' = "idle"
            /\ responseCh' = SendResponseMessage(responseCh, cur)
            /\ UNCHANGED clientsLock
       ELSE /\ rdPC' = "fanning"
            /\ clientsLock' = "reader"
            /\ UNCHANGED responseCh
    /\ UNCHANGED <<sseClients, pendingMessages, pendLock, MessageCh, chClosed, hPC,
                   drainIdx, cur, linesRead, parsedCount, crashed, received, regAfter,
                   drainSnap,
                   evictedAt, regPend>>
    /\ UNCHANGED <<postVars, otherVars>>

delete_Keep(clients, h) == clients

\* sendSSEEvent, line 362: delete(p.sseClients, clientID)
delete(clients, h) == clients \ {h}

\* sendSSEEvent, lines 355-365: one iteration over the map, in any order.  A
\* full channel evicts the client: it leaves the set and its channel is
\* closed.  After the last iteration the mutex is released and
\* parseAndForwardJSONRPC sends the message to the response channel
\* (lines 830-832).
sendSSEEvent_Send(h) ==
    /\ ~crashed
    /\ rdPC = "fanning"
    /\ h \in todo
    /\ selectDefault(MessageCh[h])
    /\ todo' = todo \ {h}
    /\ IF chClosed[h]
       THEN /\ crashed' = TRUE
            /\ UNCHANGED <<MessageCh, sseClients, chClosed, evictedAt>>
       ELSE IF Len(MessageCh[h]) < QueueCap
       THEN /\ MessageCh' = [MessageCh EXCEPT ![h] = Enqueue(@, [n |-> cur, via |-> "live"])]
            /\ UNCHANGED <<sseClients, chClosed, crashed, evictedAt>>
       ELSE /\ sseClients' = delete(sseClients, h)
            /\ chClosed' = [chClosed EXCEPT ![h] = TRUE]
            /\ evictedAt' = [evictedAt EXCEPT ![h] = cur]
            /\ UNCHANGED <<MessageCh, crashed>>
    /\ IF todo = {h} /\ ~chClosed[h]
       THEN /\ clientsLock' = "free"
            /\ responseCh' = SendResponseMessage(responseCh, cur)
            /\ rdPC' = "idle"
       ELSE UNCHANGED <<clientsLock, responseCh, rdPC>>
    /\ UNCHANGED <<pendingMessages, pendLock, hPC, drainIdx, cur, linesRead, parsedCount,
                   received, regAfter, drainSnap, regPend>>
    /\ UNCHANGED <<postVars, otherVars>>

\* ForwardResponseToClients, lines 202-204: no client was seen, the message
\* is appended to the pending list; then the response channel as above
ForwardResponseToClients_Queue ==
    /\ ~crashed
    /\ rdPC = "append"
    /\ pendLock = 0
    /\ pendingMessages' = Append(pendingMessages, cur)
    /\ responseCh' = SendResponseMessage(responseCh, cur)
    /\ rdPC' = "idle"
    /\ UNCHANGED <<sseClients, clientsLock, pendLock, MessageCh, chClosed, hPC, drainIdx,
                   cur, todo, linesRead, parsedCount, crashed, received, regAfter,
                   drainSnap,
                   evictedAt, regPend>>
    /\ UNCHANGED <<postVars, otherVars>>

(*-------------------------- POST /messages -----------------------------*)

\* handlePostRequest, lines 307-309
SessionExists_Any(sid, clients) == TRUE

SessionExists(sid, clients) == sid[1] = "uuid" /\ sid[2] \in clients

PostEarlyStatus_BodyFirst(method, sid, exists, body) ==
    IF method # "POST" THEN 405
    ELSE IF sid = EmptySession THEN 400
    ELSE IF body = "readerr" THEN 500
    ELSE IF body = "malformed" THEN 400
    ELSE IF ~exists THEN 404
    ELSE 0

\* handlePostRequest, lines 293-328: the answer of a request that ends
\* before the send, or 0 when the request goes on to the send
PostEarlyStatus(method, sid, exists, body) ==
    IF method # "POST" THEN 405
    ELSE IF sid = EmptySession THEN 400
    ELSE IF ~exists THEN 404
    ELSE IF body = "readerr" THEN 500
    ELSE IF body = "malformed" THEN 400
    ELSE 0

\* handlePostRequest up to the decoded message (lines 291-331)
handlePostRequest_Check(method, sid, body) ==
    /\ ~crashed
    /\ serverPC = "serving"
    /\ postCount < MaxPosts
    /\ clientsLock = "free"
    /\ postCount' = postCount + 1
    /\ LET r      == postCount + 1
           st     == PostEarlyStatus(method, sid, SessionExists(sid, sseClients), body)
           isReg  == \E h \in sseClients : sid = clientID(h)
       IN  /\ notFound' = IF method = "POST" /\ ~isReg THEN notFound \cup {r} ELSE notFound
           /\ IF st = 0
              THEN /\ inFlight' = inFlight \cup {[r |-> r, sid |-> sid, registered |-> isReg]}
                   /\ UNCHANGED lastPost
              ELSE /\ lastPost' = [r |-> r, method |-> method, sid |-> sid, body |-> body,
                                   registered |-> isReg, status |-> st]
                   /\ UNCHANGED inFlight
    /\ UNCHANGED <<messageCh, stdinLog, stdinData, accepted, refused>>
    /\ UNCHANGED <<bridgeVars, otherVars>>

SendMessageToDestination_DropOldest(ch, msg) ==
    [ch |-> IF Len(ch) < MsgChCap THEN Append(ch, msg) ELSE Append(Tail(ch), msg), ok |-> TRUE]

\* SendMessageToDestination, lines 157-166: a non-blocking send on messageCh
SendMessageToDestination(ch, msg) ==
    IF Len(ch) < MsgChCap THEN [ch |-> Append(ch, msg), ok |-> TRUE]
    ELSE [ch |-> ch, ok |-> FALSE]

\* handlePostRequest, lines 334-343, with SendMessageToDestination: a
\* non-blocking send on messageCh, 202 when it succeeds and 500 when not
handlePostRequest_Send(f) ==
    /\ ~crashed
    /\ f \in inFlight
    /\ inFlight' = inFlight \ {f}
    /\ LET sent == SendMessageToDestination(messageCh, f.r)
       IN  /\ messageCh' = sent.ch
           /\ lastPost' = [r |-> f.r, method |-> "POST", sid |-> f.sid, body |-> "ok",
                           registered |-> f.registered,
                           status |-> IF sent.ok THEN 202 ELSE 500]
           /\ refused' = IF sent.ok THEN refused ELSE refused \cup {f.r}
           /\ accepted' = IF sent.ok THEN Append(accepted, f.r) ELSE accepted
    /\ UNCHANGED <<stdinLog, stdinData, postCount, notFound>>
    /\ UNCHANGED <<bridgeVars, otherVars>>

\* a POST that arrives after a panic outside an HTTP handler has ended the
\* process (line 271, close of a closed channel): the connection is refused
\* and the request has no answer, written as status 0
PostToEndedProcess(sid) ==
    /\ crashed
    /\ postCount < MaxPosts
    /\ postCount' = postCount + 1
    /\ lastPost' = [r |-> postCount + 1, method |-> "POST", sid |-> sid, body |-> "ok",
                    registered |-> FALSE, status |-> 0]
    /\ UNCHANGED <<messageCh, stdinLog, stdinData, accepted, inFlight, notFound, refused>>
    /\ UNCHANGED <<bridgeVars, otherVars>>

Digits == <<"0", "1", "2", "3", "4", "5", "6", "7", "8", "9">>

\* jsonrpc2.EncodeMessage, line 839: the compact JSON of a message, here of
\* the request whose id is r; the encoding holds no newline
EncodeMessage(r) == <<"{", Digits[r + 1], "}">>

sendMessageToContainer_NoNewline(in, msg, ok) ==
    IF ok THEN in \o EncodeMessage(msg) ELSE in

\* sendMessageToContainer, lines 836-854: the encoded message and one
\* newline go to stdin in a single Write; when the Write fails the error is
\* returned and nothing of the message is on stdin
sendMessageToContainer(in, msg, ok) ==
    IF ok THEN in \o EncodeMessage(msg) \o <<"\n">> ELSE in

\* processMessages, lines 677-688: the one goroutine that receives from
\* messageCh takes the next message and calls sendMessageToContainer; an
\* error of the write is logged and the loop goes on
processMessages ==
    /\ ~crashed
    /\ messageCh # <<>>
    /\ \E ok \in BOOLEAN :
           /\ stdinData' = sendMessageToContainer(stdinData, Head(messageCh), ok)
           /\ stdinLog' = IF ok THEN Append(stdinLog, Head(messageCh)) ELSE stdinLog
    /\ messageCh' = Tail(messageCh)
    /\ UNCHANGED <<accepted, inFlight, postCount, lastPost, notFound, refused>>
    /\ UNCHANGED <<bridgeVars, otherVars>>

(*------------------------- HTTPSSEProxy.Stop --------------------------*)

\* the frame of a step of HTTPSSEProxy.Stop
StopFrame ==
    UNCHANGED <<bridgeVars, postVars, lineVars, aclVars, stopVars, deployVars, cliVars, rdVars, runVars, written,
                middlewares, lastReq, admitted>>

\* Stop, lines 134-141: shutdownCh is closed and server.Shutdown is
\* called, which closes the listener at once.  No goroutine receives from
\* shutdownCh.
HTTPSSEProxy_Stop ==
    /\ ~crashed
    /\ serverPC = "serving"
    /\ serverPC' = "shutdown"
    /\ StopFrame

\* the handlers that have not returned
ActiveHandlers == {h \in Handlers : hPC[h] \in {"pending", "drain", "stream"}}

\* Stop, line 140: server.Shutdown returns nil once no connection is
\* active; it ends no request that is under way
Shutdown_Idle ==
    /\ ~crashed
    /\ serverPC = "shutdown"
    /\ ActiveHandlers = {} /\ inFlight = {}
    /\ serverPC' = "stopped"
    /\ StopFrame

\* Stop, line 140: the caller's context ends first and server.Shutdown
\* returns its error
Shutdown_CtxDone ==
    /\ ~crashed
    /\ serverPC = "shutdown"
    /\ serverPC' = "deadline"
    /\ StopFrame

(*----------------------- the middleware chain --------------------------*)

\* the middlewares a proxy can be built with; one of them can be the JWT
\* validator
MiddlewareNames == {<<"middleware", i>> : i \in 1..MaxMiddlewares}

\* the handlers registered on the mux, Start lines 100-110
BridgeHandler(path) == <<"handler", path>>

Paths == {"/sse", "/messages", "/health"}

\* a handler is the sequence of the layers it runs, outermost first;
\* middlewares[i](handler) runs the middleware and then, unless it answers
\* the request itself, handler
Wrap(m, next) == <<m>> \o next

RECURSIVE applyFrom(_, _, _)
applyFrom(handler, mws, i) ==
    IF i = 0 THEN handler ELSE applyFrom(Wrap(mws[i], handler), mws, i - 1)

RECURSIVE applyUpTo(_, _, _)
applyUpTo(handler, mws, i) ==
    IF i > Len(mws) THEN handler ELSE applyUpTo(Wrap(mws[i], handler), mws, i + 1)

\* the loop run from the first middleware to the last
applyMiddlewares_Forward(handler, mws) == applyUpTo(handler, mws, 1)

\* applyMiddlewares, lines 87-94: the loop runs from the last middleware
\* to the first
applyMiddlewares(handler, mws) == applyFrom(handler, mws, Len(mws))

\* Start, lines 96-110: the handler the mux holds for a path
Route(path, mws) ==
    IF path = "/health" THEN <<BridgeHandler(path)>>
    ELSE applyMiddlewares(<<BridgeHandler(path)>>, mws)

\* ServeHTTP of a handler: the layers that run for a request.  A
\* middleware that rejects the request answers it and returns without
\* calling next (JWTValidator.Middleware, jwt.go 185-214).
RECURSIVE ServeHTTP(_, _)
ServeHTTP(handler, rejecting) ==
    IF handler = <<>> THEN <<>>
    ELSE IF Head(handler) \in rejecting THEN <<Head(handler)>>
    ELSE <<Head(handler)>> \o ServeHTTP(Tail(handler), rejecting)

\* the server routes a request; rejecting is the set of the middlewares
\* that refuse it.  For /sse and /messages the status is that of the
\* middleware that refused, or 0 when the bridge handler was called and the
\* answer is the handler's.
mux_ServeHTTP(path, rejecting) ==
    /\ ~crashed
    /\ serverPC = "serving"
    /\ lastReq.n < MaxRequests
    /\ LET trace  == ServeHTTP(Route(path, middlewares), rejecting)
           called == BridgeHandler(path) \in Range(trace)
       IN  /\ lastReq' = [n |-> lastReq.n + 1, path |-> path, rejecting |-> rejecting,
                          trace |-> trace,
                          status |-> IF ~called THEN 401
                                     ELSE IF path = "/health" THEN 200 ELSE 0]
           /\ admitted' = IF called /\ path # "/health"
                          THEN [admitted EXCEPT ![path] = @ + 1] ELSE admitted
    /\ UNCHANGED <<bridgeVars, postVars, lineVars, aclVars, stopVars, deployVars, cliVars, rdVars, runVars, serverPC,
                   written, middlewares>>

\* the handlers of GET /sse that have been called
Started == {h \in Handlers : hPC[h] # "none"}

\* handleSSEConnection is called by the chain of a request to /sse
serveSSE(h) ==
    /\ Cardinality(Started) < admitted["/sse"]
    /\ handleSSEConnection_Register(h)

\* handlePostRequest is called by the chain of a request to /messages
serveMessages(method, sid, body) ==
    /\ postCount < admitted["/messages"]
    /\ handlePostRequest_Check(method, sid, body)

\* NewHTTPSSEProxy with middlewares, lines 73-84, and Start
InitChain ==
    /\ serverPC = "serving"
    /\ written = [h \in Handlers |-> <<>>]
    /\ middlewares \in SeqsUpTo(MiddlewareNames, MaxMiddlewares)
    /\ lastReq = NoReq
    /\ admitted = [path \in {"/sse", "/messages"} |-> 0]

(***************************************************************************)
(* Dirty-byte recovery on one stdout line (SpecSanitize).                  *)
(***************************************************************************)

InitLine ==
    /\ stdoutLine \in SeqsUpTo(Chars, MaxLineLen) \ {<<>>}
    /\ forwarded = <<>>
    /\ linePC = "read"

ParkedLine ==
    /\ stdoutLine = <<>>
    /\ forwarded = <<>>
    /\ linePC = "off"

\* parseAndForwardJSONRPC, lines 793-833, on the line: one message goes to
\* ForwardResponseToClients when the text decodes, none when it does not
parseAndForwardJSONRPC_Line ==
    /\ linePC = "read"
    /\ forwarded' = IF parseLine(stdoutLine) # NoMessage
                    THEN <<parseLine(stdoutLine)>> ELSE <<>>
    /\ linePC' = "done"
    /\ UNCHANGED <<stdoutLine, aclVars, stopVars, bridgeVars, postVars, srvVars, cliVars, rdVars, runVars, deployVars>>

(***************************************************************************)
(* The egress proxy ACL document (SpecACL).                                *)
(*                                                                         *)
(* The document is a sequence of tokens; the token "\n" ends a line.  A    *)
(* host, a port and a hostname are one token each.                         *)
(***************************************************************************)
Hosts == {"h1", "h2"}

NilOutbound ==
    [isNil |-> TRUE, InsecureAllowAll |-> FALSE, AllowHost |-> <<>>, AllowPort |-> <<>>,
     AllowTransport |-> <<>>]

\* the values of *permissions.OutboundNetworkPermissions
Outbounds ==
    {NilOutbound} \cup
    [isNil : {FALSE}, InsecureAllowAll : BOOLEAN, AllowHost : SeqsUpTo(Hosts, MaxHosts),
     AllowPort : SeqsUpTo({"443"}, 1), AllowTransport : SeqsUpTo({"tcp", "udp"}, 1)]

\* the values of *permissions.NetworkPermissions
NetworkPermissionsValues ==
    {[isNil |-> TRUE, Outbound |-> NilOutbound]} \cup [isNil : {FALSE}, Outbound : Outbounds]

IngressPortSets == SUBSET {"8080/tcp", "9090/tcp"}

\* strings.Split(port, "/")[0]
portNum(port) == IF port = "8080/tcp" THEN "8080" ELSE "9090"

\* strings.ToUpper
ToUpper(method) == IF method = "tcp" THEN "TCP" ELSE "UDP"

RECURSIVE Flatten(_)
Flatten(ss) == IF ss = <<>> THEN <<>> ELSE Head(ss) \o Flatten(Tail(ss))

\* writeOutboundACLs without the block of the hosts
writeOutboundACLs_NoHosts(outbound) ==
    (IF Len(outbound.AllowPort) > 0
     THEN <<"# Define allowed ports", "\n", "acl allowed_ports port">>
          \o Flatten([i \in 1..Len(outbound.AllowPort) |-> <<" ", outbound.AllowPort[i]>>])
          \o <<"\n">>
     ELSE <<>>)
    \o
    (IF Len(outbound.AllowTransport) > 0
     THEN <<"# Define allowed methods", "\n", "acl allowed_methods method">>
          \o Flatten([i \in 1..Len(outbound.AllowTransport) |->
                 (IF ToUpper(outbound.AllowTransport[i]) = "TCP"
                  THEN <<" CONNECT GET POST HEAD">> ELSE <<>>)
                 \o <<" ", ToUpper(outbound.AllowTransport[i])>>])
     ELSE <<>>)

\* writeOutboundACLs, lines 214-240: what it appends to the builder
writeOutboundACLs(outbound) ==
    (IF Len(outbound.AllowPort) > 0
     THEN <<"# Define allowed ports", "\n", "acl allowed_ports port">>
          \o Flatten([i \in 1..Len(outbound.AllowPort) |-> <<" ", outbound.AllowPort[i]>>])
          \o <<"\n">>
     ELSE <<>>)
    \o
    (IF Len(outbound.AllowHost) > 0
     THEN <<"# Define allowed destinations", "\n", "acl allowed_dsts dstdomain">>
          \o Flatten([i \in 1..Len(outbound.AllowHost) |-> <<" ", outbound.AllowHost[i]>>])
          \o <<"\n">>
     ELSE <<>>)
    \o
    (IF Len(outbound.AllowTransport) > 0
     THEN <<"# Define allowed methods", "\n", "acl allowed_methods method">>
          \o Flatten([i \in 1..Len(outbound.AllowTransport) |->
                 (IF ToUpper(outbound.AllowTransport[i]) = "TCP"
                  THEN <<" CONNECT GET POST HEAD">> ELSE <<>>)
                 \o <<" ", ToUpper(outbound.AllowTransport[i])>>])
     ELSE <<>>)

\* writeHttpAccessRules that writes its rule with no condition too
writeHttpAccessRules_Always(outbound) ==
    LET conditions ==
            (IF Len(outbound.AllowPort) > 0 THEN <<"allowed_ports">> ELSE <<>>)
            \o (IF Len(outbound.AllowHost) > 0 THEN <<"allowed_dsts">> ELSE <<>>)
            \o (IF Len(outbound.AllowTransport) > 0 THEN <<"allowed_methods">> ELSE <<>>)
    IN  <<"\n", "# Define http_access rules", "\n", "http_access allow">>
        \o Flatten([i \in 1..Len(conditions) |-> <<" ", conditions[i]>>])
        \o <<"\n">>

\* writeHttpAccessRules, lines 242-257
writeHttpAccessRules(outbound) ==
    LET conditions ==
            (IF Len(outbound.AllowPort) > 0 THEN <<"allowed_ports">> ELSE <<>>)
            \o (IF Len(outbound.AllowHost) > 0 THEN <<"allowed_dsts">> ELSE <<>>)
            \o (IF Len(outbound.AllowTransport) > 0 THEN <<"allowed_methods">> ELSE <<>>)
    IN  IF Len(conditions) > 0
        THEN <<"\n", "# Define http_access rules", "\n", "http_access allow">>
             \o Flatten([i \in 1..Len(conditions) |-> <<" ", conditions[i]>>])
             \o <<"\n">>
        ELSE <<>>

\* writeIngressProxyConfig, lines 259-269; ports is the map in the order of
\* the iteration
writeIngressProxyConfig(ports, serverHostname) ==
    Flatten([i \in 1..Len(ports) |->
        <<"\n", "# Reverse proxy setup for port ", portNum(ports[i]), "\n",
          "http_port ", portNum(ports[i]), " accel defaultsite=", serverHostname, "\n",
          "cache_peer ", serverHostname, " parent ", portNum(ports[i]),
          " 0 no-query originserver name=origin_", portNum(ports[i]), "\n",
          "acl site_", portNum(ports[i]), " dstdomain ", serverHostname, " 127.0.0.1", "\n",
          "http_access allow site_", portNum(ports[i]), "\n">>])

\* createTempSquidConf that writes the allow-lists of a profile with
\* insecure_allow_all before the allow-all rule
squidConfText_ListsKept(networkPermissions, serverHostname, ports) ==
    <<"http_port 3128", "\n">>
    \o (IF networkPermissions.isNil THEN <<>>
        ELSE writeOutboundACLs(networkPermissions.Outbound))
    \o <<"# Allow all traffic", "\n", "http_access allow all", "\n">>
    \o writeIngressProxyConfig(ports, serverHostname)
    \o <<"http_access deny all", "\n">>

\* createTempSquidConf, lines 278-301: the content of the builder
squidConfText(networkPermissions, serverHostname, ports) ==
    <<"http_port 3128", "\n",
      "visible_hostname ", serverHostname, "-egress", "\n",
      "access_log stdio:/var/log/squid/access.log squid", "\n",
      "pid_filename /var/run/squid/squid.pid", "\n",
      "# Disable memory and disk caching", "\n",
      "cache deny all", "\n",
      "cache_mem 0 MB", "\n",
      "maximum_object_size 0 KB", "\n",
      "maximum_object_size_in_memory 0 KB", "\n",
      "# Don't use cache directories", "\n",
      "cache_dir null /tmp", "\n",
      "cache_store_log none", "\n", "\n">>
    \o (IF networkPermissions.isNil
           \/ (~networkPermissions.Outbound.isNil
               /\ networkPermissions.Outbound.InsecureAllowAll)
        THEN <<"# Allow all traffic", "\n", "http_access allow all", "\n">>
        ELSE writeOutboundACLs(networkPermissions.Outbound)
             \o writeHttpAccessRules(networkPermissions.Outbound))
    \o writeIngressProxyConfig(ports, serverHostname)
    \o <<"http_access deny all", "\n">>

\* createTempSquidConf, lines 292-296: a profile with network permissions
\* and no outbound section reaches writeOutboundACLs with a nil pointer
derefsNilOutbound(networkPermissions) ==
    ~networkPermissions.isNil /\ networkPermissions.Outbound.isNil

Orders(S) == {o \in SeqsUpTo(S, Cardinality(S)) : Len(o) = Cardinality(S) /\ Range(o) = S}

NoConf == <<"none">>

InitACL ==
    /\ aclIn \in [networkPermissions : NetworkPermissionsValues, serverHostname : {"w1"},
                  ingressPorts : IngressPortSets]
    /\ squidConf = NoConf
    /\ aclPC = "call"

ParkedACL ==
    /\ aclIn = <<>>
    /\ squidConf = NoConf
    /\ aclPC = "off"

\* createTempSquidConf, lines 271-314
createTempSquidConf ==
    /\ aclPC = "call"
    /\ IF derefsNilOutbound(aclIn.networkPermissions)
       THEN /\ aclPC' = "panicked"
            /\ UNCHANGED squidConf
       ELSE /\ aclPC' = "done"
            /\ \E ports \in Orders(aclIn.ingressPorts) :
                   squidConf' = squidConfText(aclIn.networkPermissions,
                                              aclIn.serverHostname, ports)
    /\ UNCHANGED <<aclIn, lineVars, stopVars, bridgeVars, postVars, srvVars, cliVars, rdVars, runVars, deployVars>>

(***************************************************************************)
(* Concurrent StdioTransport.Stop calls (SpecStop).                        *)
(*                                                                         *)
(* Caller 0 is the goroutine handleContainerExit; the callers from 1 on    *)
(* are external.  stPC[c] follows Stop: "idle" before the call, "check1"   *)
(* at the first select, "lock" at t.mutex.Lock(), "check2" at the second   *)
(* select, then "monitor", "wait" (inside wg.Wait()), "proxy", "stdin",    *)
(* "running", "stopping", and "returned".                                  *)
(***************************************************************************)
StopCallers == 0..MaxStopCalls

ExitHandler == 0

TeardownSteps == {"shutdownCh", "monitor", "proxy", "stdin", "container"}

\* the transport after Setup, and after Start when started
InitStop ==
    /\ \E started \in BOOLEAN :
           /\ monitor = started
           /\ stdin = started
           /\ httpProxy = started
           /\ monRunning = started
           /\ monitorPC = IF started THEN "polling" ELSE "none"
           /\ exitPC = IF started THEN "wait" ELSE "none"
    /\ shutdownCh = FALSE
    /\ mutex = FALSE
    /\ proxyShutdownCh = FALSE
    /\ stopCh = FALSE
    /\ errorCh = <<>>
    /\ containerUp = TRUE
    /\ stPC = [c \in StopCallers |-> "idle"]
    /\ stopPanicked = FALSE
    /\ teardown = [s \in TeardownSteps |-> 0]
    /\ did = [c \in StopCallers |-> {}]
    /\ sawClosed = [c \in StopCallers |-> "no"]
    /\ history = <<>>
    /\ ticks = 0
    /\ eventsSent = 0

ParkedStop ==
    /\ monitor = FALSE
    /\ stdin = FALSE
    /\ httpProxy = FALSE
    /\ monRunning = FALSE
    /\ monitorPC = "none"
    /\ exitPC = "none"
    /\ shutdownCh = FALSE
    /\ mutex = FALSE
    /\ proxyShutdownCh = FALSE
    /\ stopCh = FALSE
    /\ errorCh = <<>>
    /\ containerUp = FALSE
    /\ stPC = [c \in StopCallers |-> "idle"]
    /\ stopPanicked = FALSE
    /\ teardown = [s \in TeardownSteps |-> 0]
    /\ did = [c \in StopCallers |-> {}]
    /\ sawClosed = [c \in StopCallers |-> "no"]
    /\ history = <<>>
    /\ ticks = 0
    /\ eventsSent = 0

\* the caller c has executed the teardown step s
Executed(c, s) ==
    /\ teardown' = [teardown EXCEPT ![s] = @ + 1]
    /\ did' = [did EXCEPT ![c] = @ \cup {s}]

\* Stop returns nil to c; the deferred Unlock has run where the mutex was held
Returned(c) ==
    /\ stPC' = [stPC EXCEPT ![c] = "returned"]
    /\ exitPC' = IF c = ExitHandler THEN "returned" ELSE exitPC

\* the container exits on its own
ContainerExits ==
    /\ ~stopPanicked
    /\ containerUp
    /\ containerUp' = FALSE
    /\ UNCHANGED <<shutdownCh, mutex, monitor, stdin, httpProxy, proxyShutdownCh, stopCh,
                   monRunning, monitorPC, errorCh, stPC, exitPC, stopPanicked, teardown, did,
                   sawClosed>>
    /\ UNCHANGED <<history, lineVars, aclVars, bridgeVars, postVars, srvVars, cliVars, rdVars, runVars, monVars, deployVars>>

\* the error IsContainerRunning returns for a container the engine does
\* not hold
IsContainerNotFound(err) == err = "not found"

\* runtime.IsContainerRunning, docker/client.go 438-450: what one inspect
\* can answer
IsContainerRunning_Monitor ==
    (IF containerUp
     THEN {[running |-> TRUE, err |-> "nil"]}
     ELSE {[running |-> FALSE, err |-> "nil"], [running |-> FALSE, err |-> "not found"]})
    \cup {[running |-> FALSE, err |-> "inspect failed"]}

\* a goroutine that stays in its send and never runs wg.Done
monitor_Return_NoDone == "sending"

\* Monitor.monitor, lines 76, 101 and 120: the return after the send runs
\* the deferred wg.Done
monitor_Return == "returned"

\* a monitor that reports every failed inspect
sendsEvent_AnyError(r) == r.err # "nil" \/ ~r.running

\* Monitor.monitor, lines 92-121: the answers on which the tick sends the
\* exit error
sendsEvent(r) ==
    IF r.err # "nil" THEN IsContainerNotFound(r.err) ELSE ~r.running

\* Monitor.monitor, lines 89-121: one tick with the answer r of the
\* inspect; the exit error goes to errorCh and the goroutine ends, or the
\* loop goes on
monitor_Tick(r) ==
    /\ ~stopPanicked
    /\ monitorPC = "polling"
    /\ IF sendsEvent(r)
       THEN /\ Len(errorCh) < 1
            /\ errorCh' = Append(errorCh, "exited")
            /\ eventsSent' = eventsSent + 1
            /\ monitorPC' = monitor_Return
            /\ ticks' = ticks
       ELSE /\ ticks < MaxTicks
            /\ ticks' = ticks + 1
            /\ UNCHANGED <<errorCh, eventsSent, monitorPC>>
    /\ UNCHANGED <<shutdownCh, mutex, monitor, stdin, httpProxy, proxyShutdownCh, stopCh,
                   monRunning, containerUp, stPC, exitPC, stopPanicked, teardown, did,
                   sawClosed>>
    /\ UNCHANGED <<history, lineVars, aclVars, bridgeVars, postVars, srvVars, cliVars, rdVars, runVars, deployVars>>

\* the ticks that end the monitoring; the others change no field of the
\* transport or of the Monitor
monitor_Exit ==
    \E r \in {a \in IsContainerRunning_Monitor : sendsEvent(a)} : monitor_Tick(r)

\* Monitor.monitor, lines 86-88: stopCh is closed, the goroutine ends
monitor_Stopped ==
    /\ ~stopPanicked
    /\ monitorPC = "polling"
    /\ stopCh
    /\ monitorPC' = "returned"
    /\ UNCHANGED <<shutdownCh, mutex, monitor, stdin, httpProxy, proxyShutdownCh, stopCh,
                   monRunning, errorCh, containerUp, stPC, exitPC, stopPanicked, teardown,
                   did, sawClosed>>
    /\ UNCHANGED <<history, lineVars, aclVars, bridgeVars, postVars, srvVars, cliVars, rdVars, runVars, monVars, deployVars>>

\* handleContainerExit, lines 859-860: the context of Start is done
handleContainerExit_CtxDone ==
    /\ ~stopPanicked
    /\ exitPC = "wait"
    /\ exitPC' = "returned"
    /\ UNCHANGED <<shutdownCh, mutex, monitor, stdin, httpProxy, proxyShutdownCh, stopCh,
                   monRunning, monitorPC, errorCh, containerUp, stPC, stopPanicked, teardown,
                   did, sawClosed>>
    /\ UNCHANGED <<history, lineVars, aclVars, bridgeVars, postVars, srvVars, cliVars, rdVars, runVars, monVars, deployVars>>

\* handleContainerExit, lines 861-868: the exit error is received
handleContainerExit_Receive ==
    /\ ~stopPanicked
    /\ exitPC = "wait"
    /\ errorCh # <<>>
    /\ errorCh' = Tail(errorCh)
    /\ exitPC' = "check"
    /\ UNCHANGED <<shutdownCh, mutex, monitor, stdin, httpProxy, proxyShutdownCh, stopCh,
                   monRunning, monitorPC, containerUp, stPC, stopPanicked, teardown, did,
                   sawClosed>>
    /\ UNCHANGED <<history, lineVars, aclVars, bridgeVars, postVars, srvVars, cliVars, rdVars, runVars, monVars, deployVars>>

\* handleContainerExit, lines 871-885: return when the sentinel is closed,
\* call Stop when it is not
handleContainerExit_Check ==
    /\ ~stopPanicked
    /\ exitPC = "check"
    /\ IF shutdownCh
       THEN /\ exitPC' = "returned"
            /\ UNCHANGED stPC
       ELSE /\ exitPC' = "stopping"
            /\ stPC' = [stPC EXCEPT ![ExitHandler] = "check1"]
    /\ UNCHANGED <<shutdownCh, mutex, monitor, stdin, httpProxy, proxyShutdownCh, stopCh,
                   monRunning, monitorPC, errorCh, containerUp, stopPanicked, teardown, did,
                   sawClosed>>
    /\ UNCHANGED <<history, lineVars, aclVars, bridgeVars, postVars, srvVars, cliVars, rdVars, runVars, monVars, deployVars>>

\* an external caller calls Stop
Stop_Call(c) ==
    /\ ~stopPanicked
    /\ c # ExitHandler
    /\ stPC[c] = "idle"
    /\ stPC' = [stPC EXCEPT ![c] = "check1"]
    /\ UNCHANGED <<shutdownCh, mutex, monitor, stdin, httpProxy, proxyShutdownCh, stopCh,
                   monRunning, monitorPC, errorCh, containerUp, exitPC, stopPanicked,
                   teardown, did, sawClosed>>
    /\ UNCHANGED <<history, lineVars, aclVars, bridgeVars, postVars, srvVars, cliVars, rdVars, runVars, monVars, deployVars>>

\* Stop, lines 579-586: the check without the lock
Stop_FirstCheck(c) ==
    /\ ~stopPanicked
    /\ stPC[c] = "check1"
    /\ IF shutdownCh
       THEN /\ Returned(c)
            /\ sawClosed' = [sawClosed EXCEPT ![c] = "first"]
       ELSE /\ stPC' = [stPC EXCEPT ![c] = "lock"]
            /\ UNCHANGED <<exitPC, sawClosed>>
    /\ UNCHANGED <<shutdownCh, mutex, monitor, stdin, httpProxy, proxyShutdownCh, stopCh,
                   monRunning, monitorPC, errorCh, containerUp, stopPanicked, teardown, did>>
    /\ UNCHANGED <<history, lineVars, aclVars, bridgeVars, postVars, srvVars, cliVars, rdVars, runVars, monVars, deployVars>>

\* Stop, line 589
Stop_Lock(c) ==
    /\ ~stopPanicked
    /\ stPC[c] = "lock"
    /\ mutex = FALSE
    /\ mutex' = TRUE
    /\ stPC' = [stPC EXCEPT ![c] = "check2"]
    /\ UNCHANGED <<shutdownCh, monitor, stdin, httpProxy, proxyShutdownCh, stopCh,
                   monRunning, monitorPC, errorCh, containerUp, exitPC, stopPanicked,
                   teardown, did, sawClosed>>
    /\ UNCHANGED <<history, lineVars, aclVars, bridgeVars, postVars, srvVars, cliVars, rdVars, runVars, monVars, deployVars>>

\* Stop, lines 593-597: the check under the lock skips nothing
SecondCheck_Skipped(closed) == FALSE

\* Stop, lines 593-597: the check under the lock
SecondCheck(closed) == closed

\* Stop, lines 593-600: return when the sentinel is closed, close it when it
\* is not; closing a closed channel panics
Stop_SecondCheck(c) ==
    /\ ~stopPanicked
    /\ stPC[c] = "check2"
    /\ IF SecondCheck(shutdownCh)
       THEN /\ Returned(c)
            /\ mutex' = FALSE
            /\ sawClosed' = [sawClosed EXCEPT ![c] = "second"]
            /\ UNCHANGED <<shutdownCh, stopPanicked, teardown, did>>
       ELSE /\ Executed(c, "shutdownCh")
            /\ IF shutdownCh
               THEN /\ stopPanicked' = TRUE
                    /\ UNCHANGED <<shutdownCh, stPC>>
               ELSE /\ shutdownCh' = TRUE
                    /\ stPC' = [stPC EXCEPT ![c] = "monitor"]
                    /\ UNCHANGED stopPanicked
            /\ UNCHANGED <<mutex, sawClosed, exitPC>>
    /\ UNCHANGED <<monitor, stdin, httpProxy, proxyShutdownCh, stopCh, monRunning, monitorPC,
                   errorCh, containerUp>>
    /\ UNCHANGED <<history, lineVars, aclVars, bridgeVars, postVars, srvVars, cliVars, rdVars, runVars, monVars, deployVars>>

\* Stop, lines 603-606, with StopMonitoring up to wg.Wait(): stopCh is
\* closed when the monitor is running
Stop_Monitor(c) ==
    /\ ~stopPanicked
    /\ stPC[c] = "monitor"
    /\ IF monitor
       THEN /\ Executed(c, "monitor")
            /\ IF monRunning
               THEN /\ stopCh' = TRUE
                    /\ stPC' = [stPC EXCEPT ![c] = "wait"]
                    /\ UNCHANGED monitor
               ELSE /\ monitor' = FALSE
                    /\ stPC' = [stPC EXCEPT ![c] = "proxy"]
                    /\ UNCHANGED stopCh
       ELSE /\ stPC' = [stPC EXCEPT ![c] = "proxy"]
            /\ UNCHANGED <<monitor, stopCh, teardown, did>>
    /\ UNCHANGED <<shutdownCh, mutex, stdin, httpProxy, proxyShutdownCh, monRunning,
                   monitorPC, errorCh, containerUp, exitPC, stopPanicked, sawClosed>>
    /\ UNCHANGED <<history, lineVars, aclVars, bridgeVars, postVars, srvVars, cliVars, rdVars, runVars, monVars, deployVars>>

\* StopMonitoring, lines 70-71: wg.Wait() returns when the goroutine of the
\* monitor has ended; Stop then sets t.monitor to nil
Stop_MonitorWait(c) ==
    /\ ~stopPanicked
    /\ stPC[c] = "wait"
    /\ monitorPC = "returned"
    /\ monRunning' = FALSE
    /\ monitor' = FALSE
    /\ stPC' = [stPC EXCEPT ![c] = "proxy"]
    /\ UNCHANGED <<shutdownCh, mutex, stdin, httpProxy, proxyShutdownCh, stopCh, monitorPC,
                   errorCh, containerUp, exitPC, stopPanicked, teardown, did, sawClosed>>
    /\ UNCHANGED <<history, lineVars, aclVars, bridgeVars, postVars, srvVars, cliVars, rdVars, runVars, monVars, deployVars>>

\* Stop, lines 609-613, with HTTPSSEProxy.Stop: close(p.shutdownCh), then
\* the server is shut down
Stop_Proxy(c) ==
    /\ ~stopPanicked
    /\ stPC[c] = "proxy"
    /\ IF httpProxy
       THEN /\ Executed(c, "proxy")
            /\ IF proxyShutdownCh
               THEN /\ stopPanicked' = TRUE
                    /\ UNCHANGED <<proxyShutdownCh, stPC>>
               ELSE /\ proxyShutdownCh' = TRUE
                    /\ stPC' = [stPC EXCEPT ![c] = "stdin"]
                    /\ UNCHANGED stopPanicked
       ELSE /\ stPC' = [stPC EXCEPT ![c] = "stdin"]
            /\ UNCHANGED <<proxyShutdownCh, stopPanicked, teardown, did>>
    /\ UNCHANGED <<shutdownCh, mutex, monitor, stdin, httpProxy, stopCh, monRunning,
                   monitorPC, errorCh, containerUp, exitPC, sawClosed>>
    /\ UNCHANGED <<history, lineVars, aclVars, bridgeVars, postVars, srvVars, cliVars, rdVars, runVars, monVars, deployVars>>

\* Stop, lines 616-621
Stop_Stdin(c) ==
    /\ ~stopPanicked
    /\ stPC[c] = "stdin"
    /\ IF stdin
       THEN /\ Executed(c, "stdin")
            /\ stdin' = FALSE
       ELSE UNCHANGED <<stdin, teardown, did>>
    /\ stPC' = [stPC EXCEPT ![c] = "running"]
    /\ UNCHANGED <<shutdownCh, mutex, monitor, httpProxy, proxyShutdownCh, stopCh,
                   monRunning, monitorPC, errorCh, containerUp, exitPC, stopPanicked,
                   sawClosed>>
    /\ UNCHANGED <<history, lineVars, aclVars, bridgeVars, postVars, srvVars, cliVars, rdVars, runVars, monVars, deployVars>>

\* Stop, lines 624-630: IsContainerRunning; Stop returns when the container
\* is not running
Stop_IsRunning(c) ==
    /\ ~stopPanicked
    /\ stPC[c] = "running"
    /\ IF containerUp
       THEN /\ stPC' = [stPC EXCEPT ![c] = "stopping"]
            /\ UNCHANGED <<mutex, exitPC>>
       ELSE /\ Returned(c)
            /\ mutex' = FALSE
    /\ UNCHANGED <<shutdownCh, monitor, stdin, httpProxy, proxyShutdownCh, stopCh,
                   monRunning, monitorPC, errorCh, containerUp, stopPanicked, teardown, did,
                   sawClosed>>
    /\ UNCHANGED <<history, lineVars, aclVars, bridgeVars, postVars, srvVars, cliVars, rdVars, runVars, monVars, deployVars>>

\* Stop, lines 632-638: StopContainer, then Stop returns
Stop_StopContainer(c) ==
    /\ ~stopPanicked
    /\ stPC[c] = "stopping"
    /\ Executed(c, "container")
    /\ containerUp' = FALSE
    /\ Returned(c)
    /\ mutex' = FALSE
    /\ UNCHANGED <<shutdownCh, monitor, stdin, httpProxy, proxyShutdownCh, stopCh,
                   monRunning, monitorPC, errorCh, stopPanicked, sawClosed>>
    /\ UNCHANGED <<history, lineVars, aclVars, bridgeVars, postVars, srvVars, cliVars, rdVars, runVars, monVars, deployVars>>

(***************************************************************************)
(* Start and IsRunning on the transport (SpecLifecycle).                   *)
(*                                                                         *)
(* Start is followed where the goroutines of an earlier Start have ended,  *)
(* so that monitorPC and exitPC describe the goroutines of the last Start. *)
(***************************************************************************)

\* the entries of the history that are among kinds
Count(kinds) == Cardinality({i \in 1..Len(history) : history[i] \in kinds})

IsRunning_WhileAttached(closed) == stdin

\* IsRunning, lines 647-652: the select on t.shutdownCh
IsRunning(closed) == ~closed

\* IsRunning, lines 642-653, under t.mutex
IsRunning_Call ==
    /\ ~stopPanicked
    /\ mutex = FALSE
    /\ Count({"true", "false"}) < MaxProbes
    /\ history' = Append(history, IF IsRunning(shutdownCh) THEN "true" ELSE "false")
    /\ UNCHANGED <<shutdownCh, mutex, monitor, stdin, httpProxy, proxyShutdownCh, stopCh,
                   monRunning, monitorPC, errorCh, containerUp, stPC, exitPC, stopPanicked,
                   teardown, did, sawClosed>>
    /\ UNCHANGED <<lineVars, aclVars, bridgeVars, postVars, srvVars, cliVars, rdVars, runVars, monVars, deployVars>>

\* Start, lines 523-573, under t.mutex.  When AttachContainer fails Start
\* returns at line 545.  Else stdin is set, a new proxy is made and started
\* and a new Monitor is made; StartMonitoring (monitor.go 34-57) fails for
\* a container that is not running, and Start returns before the exit
\* handler is started.  t.shutdownCh is made by NewStdioTransport (line
\* 462) and Start does not touch it.
Start_Call(attached) ==
    /\ ~stopPanicked
    /\ mutex = FALSE
    /\ monitorPC \in {"none", "returned"}
    /\ exitPC \in {"none", "returned"}
    /\ stPC[ExitHandler] \in {"idle", "returned"}
    /\ Count({"start", "start error"}) < MaxStarts
    /\ IF ~attached
       THEN /\ history' = Append(history, "start error")
            /\ UNCHANGED <<monitor, stdin, httpProxy, proxyShutdownCh, stopCh, monRunning,
                           monitorPC, errorCh, stPC, exitPC, monVars>>
       ELSE /\ stdin' = TRUE
            /\ httpProxy' = TRUE
            /\ proxyShutdownCh' = FALSE
            /\ monitor' = TRUE
            /\ stopCh' = FALSE
            /\ ticks' = 0
            /\ eventsSent' = 0
            /\ IF containerUp
               THEN /\ monRunning' = TRUE
                    /\ monitorPC' = "polling"
                    /\ errorCh' = <<>>
                    /\ exitPC' = "wait"
                    /\ stPC' = [stPC EXCEPT ![ExitHandler] = "idle"]
                    /\ history' = Append(history, "start")
               ELSE /\ monRunning' = FALSE
                    /\ history' = Append(history, "start error")
                    /\ UNCHANGED <<monitorPC, errorCh, exitPC, stPC>>
    /\ UNCHANGED <<shutdownCh, mutex, containerUp, stopPanicked, teardown, did, sawClosed>>
    /\ UNCHANGED <<lineVars, aclVars, bridgeVars, postVars, srvVars, cliVars, rdVars, runVars, deployVars>>

\* the container is started again from outside the transport
ContainerStarted ==
    /\ ~stopPanicked
    /\ ~containerUp
    /\ containerUp' = TRUE
    /\ UNCHANGED <<shutdownCh, mutex, monitor, stdin, httpProxy, proxyShutdownCh, stopCh,
                   monRunning, monitorPC, errorCh, stPC, exitPC, stopPanicked, teardown, did,
                   sawClosed, history>>
    /\ UNCHANGED <<lineVars, aclVars, bridgeVars, postVars, srvVars, cliVars, rdVars, runVars, monVars, deployVars>>

(***************************************************************************)
(* The Docker client reconciler against a container engine (SpecDeploy).   *)
(*                                                                         *)
(* A container name is a pair <<w, role>>: <<w, "main">> stands for w,     *)
(* <<w, "egress">> for w-egress and <<w, "dns">> for w-dns.  A container   *)
(* id is a positive number, 0 is the empty id.  The engine keeps names     *)
(* unique, creates a container whose endpoints name a missing network and  *)
(* refuses to start it, and refuses to remove a network that a running     *)
(* container is attached to.  A call of the API runs to its end before the *)
(* next one begins.  An operator of the client takes the state of the      *)
(* engine and yields the state after it, with what the function returns.   *)
(***************************************************************************)
Workloads == {"w1", "inspector"}

Roles == {"main", "egress", "dns"}

ContainerNames == Workloads \X Roles

\* the name of no container
NoName == <<"", "">>

\* the text of a container name
nameText(n) ==
    IF n[2] = "main" THEN n[1]
    ELSE IF n = <<"w1", "egress">> THEN "w1-egress"
    ELSE IF n = <<"w1", "dns">> THEN "w1-dns"
    ELSE IF n = <<"inspector", "egress">> THEN "inspector-egress"
    ELSE "inspector-dns"

\* fmt.Sprintf("%s-egress", containerName): a container name only when
\* containerName is the name of a main container
egressContainerName(n) ==
    IF n \in ContainerNames /\ n[2] = "main" THEN <<n[1], "egress">> ELSE NoName

\* fmt.Sprintf("%s-dns", containerName)
dnsContainerName(n) ==
    IF n \in ContainerNames /\ n[2] = "main" THEN <<n[1], "dns">> ELSE NoName

ExternalNetwork == <<"toolhive-external", "">>

\* fmt.Sprintf("toolhive-%s-internal", containerName)
internalNetworkName(n) ==
    IF n \in ContainerNames /\ n[2] = "main"
    THEN <<"toolhive-internal", n[1]>> ELSE <<"toolhive-internal", nameText(n)>>

NoConfig ==
    [Image |-> "", Cmd |-> <<>>, Env |-> {}, Labels |-> {}, AttachStdio |-> FALSE,
     ExposedPorts |-> {}]

NoHostConfig ==
    [Mounts |-> {}, NetworkMode |-> "", CapAdd |-> <<>>, CapDrop |-> <<>>,
     SecurityOpt |-> <<>>, RestartPolicy |-> "", PortBindings |-> {}, DNS |-> 0]

\* the entry of a name that no container has
Absent ==
    [exists |-> FALSE, id |-> 0, running |-> FALSE, config |-> NoConfig,
     hostConfig |-> NoHostConfig, endpoints |-> {}]

\* the labels package: the standard labels of a workload-owned container
AddStandardLabels(containerName) ==
    {<<"toolhive", "true">>, <<"toolhive-name", containerName>>}

(*------------------------------ inputs ---------------------------------*)

NilOptions == [isNil |-> TRUE, AttachStdio |-> FALSE, ExposedPorts |-> {}, PortBindings |-> {}]

NoOptions == [isNil |-> FALSE, AttachStdio |-> TRUE, ExposedPorts |-> {}, PortBindings |-> {}]

\* the arguments of DeployWorkload other than the name: the first spec of a
\* workload
BaseSpec(w) ==
    [image |-> "img1", command |-> <<"run">>, envVars |-> {<<"A", "1">>, <<"B", "1">>},
     labels |-> AddStandardLabels(w) \cup {<<"x", "1">>}, mounts |-> {},
     transportType |-> "stdio", options |-> NoOptions]

\* the specs that differ from the first one in one class
Variants(w) ==
    {[BaseSpec(w) EXCEPT !.image = "img2"],
     [BaseSpec(w) EXCEPT !.command = <<"run", "-v">>],
     [BaseSpec(w) EXCEPT !.envVars = {<<"A", "2">>, <<"B", "1">>}],
     [BaseSpec(w) EXCEPT !.envVars = {<<"A", "1">>}],
     [BaseSpec(w) EXCEPT !.labels = AddStandardLabels(w) \cup {<<"x", "2">>}],
     [BaseSpec(w) EXCEPT !.labels = AddStandardLabels(w)],
     [BaseSpec(w) EXCEPT !.mounts =
         {[Source |-> <<"path", 0>>, Target |-> "/data", ReadOnly |-> TRUE]}],
     [BaseSpec(w) EXCEPT !.options.AttachStdio = FALSE],
     [BaseSpec(w) EXCEPT !.options.ExposedPorts = {"8080/tcp"}],
     [BaseSpec(w) EXCEPT !.options.PortBindings = {<<"8080/tcp", "9000">>}],
     [BaseSpec(w) EXCEPT !.options = NilOptions],
     [BaseSpec(w) EXCEPT !.transportType = "http"]}

SpecSet(w) == {BaseSpec(w)} \cup Variants(w)

NoSpec == [BaseSpec("") EXCEPT !.image = ""]

\* what can fail outside the client in one call of DeployWorkload
Faults == {"none", "pullEgress", "pullDns", "createTemp"}

(*------------------------------ engine ---------------------------------*)

\* the value of F at v, with v computed once
Let(v, F(_)) == CHOOSE r \in {F(x) : x \in {v}} : TRUE

EgressImage == "ubuntu/squid:latest"

DnsImage == "dockurr/dnsmasq:latest"

findExistingContainer(E, n) ==
    IF n \in ContainerNames /\ E.containers[n].exists THEN E.containers[n].id ELSE 0

\* the name of the container with an id, as ContainerInspect gives it
NameOf(E, id) ==
    IF \E n \in ContainerNames : E.containers[n].exists /\ E.containers[n].id = id
    THEN CHOOSE n \in ContainerNames : E.containers[n].exists /\ E.containers[n].id = id
    ELSE NoName

\* a call on the engine, recorded
Issue(E, op, n, ok) == [E EXCEPT !.ops = Append(@, [op |-> op, name |-> n, ok |-> ok])]

ContainerStop(E, id) ==
    LET n == NameOf(E, id)
    IN  IF n = NoName
        THEN [E |-> Issue(E, "stop", n, FALSE), err |-> "NotFound"]
        ELSE [E |-> Issue([E EXCEPT !.containers[n].running = FALSE], "stop", n, TRUE),
              err |-> "nil"]

\* ContainerRemove with Force; emptyNotFound tells how the client library
\* answers an empty id
ContainerRemove(E, id, emptyNotFound) ==
    LET n == NameOf(E, id)
    IN  IF n = NoName
        THEN [E |-> Issue(E, "remove", n, FALSE),
              err |-> IF id = 0 /\ ~emptyNotFound THEN "InvalidParameter" ELSE "NotFound"]
        ELSE [E |-> Issue([E EXCEPT !.containers[n] = Absent], "remove", n, TRUE),
              err |-> "nil"]

ContainerCreate(E, n, config, hostConfig, endpointsConfig) ==
    IF E.containers[n].exists
    THEN [E |-> Issue(E, "create", n, FALSE), id |-> 0, err |-> "Conflict"]
    ELSE [E |-> Issue([E EXCEPT !.containers[n] =
                              [exists |-> TRUE, id |-> E.nextId, running |-> FALSE,
                               config |-> config, hostConfig |-> hostConfig,
                               endpoints |-> endpointsConfig],
                          !.nextId = @ + 1], "create", n, TRUE),
          id |-> E.nextId, err |-> "nil"]

ContainerStart(E, id) ==
    LET n == NameOf(E, id)
    IN  IF n = NoName THEN [E |-> Issue(E, "start", n, FALSE), err |-> "NotFound"]
        ELSE IF ~(E.containers[n].endpoints \subseteq E.networks)
        THEN [E |-> Issue(E, "start", n, FALSE), err |-> "NetworkNotFound"]
        ELSE [E |-> Issue([E EXCEPT !.containers[n].running = TRUE], "start", n, TRUE),
              err |-> "nil"]

(*------------------------------ client ---------------------------------*)

\* createNetwork, lines 1639-1668: NetworkCreate is called when the list
\* by name is empty
createNetwork(E, name) ==
    IF name \in E.networks THEN E
    ELSE Issue([E EXCEPT !.networks = @ \cup {name}], "networkCreate", name, TRUE)

\* deleteNetwork, lines 1671-1687
deleteNetwork(E, name) ==
    IF name \notin E.networks THEN [E |-> E, err |-> "NotFound"]
    ELSE IF \E n \in ContainerNames :
                E.containers[n].running /\ name \in E.containers[n].endpoints
    THEN [E |-> E, err |-> "ActiveEndpoints"]
    ELSE [E |-> [E EXCEPT !.networks = @ \ {name}], err |-> "nil"]

\* createContainerNetworks, lines 486-502
createContainerNetworks(E, internalNetwork, externalNetwork) ==
    createNetwork(createNetwork(E, internalNetwork), externalNetwork)

\* compareEnvVars, lines 1426-1440, and compareLabels, lines 1455-1464:
\* every desired pair is among the existing ones
compareEnvVars(existingEnv, desiredEnv) == desiredEnv \subseteq existingEnv

compareLabels(existingLabels, desiredLabels) == desiredLabels \subseteq existingLabels

\* compareBasicConfig, lines 1388-1423
compareBasicConfig(existing, desired) ==
    /\ existing.config.Image = desired.Image
    /\ existing.config.Cmd = desired.Cmd
    /\ compareEnvVars(existing.config.Env, desired.Env)
    /\ compareLabels(existing.config.Labels, desired.Labels)
    /\ existing.config.AttachStdio = desired.AttachStdio

\* compareStringSlices, lines 1495-1505
compareStringSlices(existing, desired) == existing = desired

\* compareHostConfig, lines 1467-1492
compareHostConfig(existing, desired) ==
    /\ existing.hostConfig.NetworkMode = desired.NetworkMode
    /\ compareStringSlices(existing.hostConfig.CapAdd, desired.CapAdd)
    /\ compareStringSlices(existing.hostConfig.CapDrop, desired.CapDrop)
    /\ compareStringSlices(existing.hostConfig.SecurityOpt, desired.SecurityOpt)
    /\ existing.hostConfig.RestartPolicy = desired.RestartPolicy

\* compareMounts, lines 1508-1528
compareMounts(existing, desired) ==
    /\ Cardinality(existing.hostConfig.Mounts) = Cardinality(desired.Mounts)
    /\ \A d \in desired.Mounts :
           \E e \in existing.hostConfig.Mounts :
               e.Target = d.Target /\ e.Source = d.Source /\ e.ReadOnly = d.ReadOnly

\* comparePortConfig, lines 1531-1561
comparePortConfig(existing, desired, desiredHost) ==
    /\ Cardinality(existing.config.ExposedPorts) = Cardinality(desired.ExposedPorts)
    /\ desired.ExposedPorts \subseteq existing.config.ExposedPorts
    /\ Cardinality(existing.hostConfig.PortBindings) = Cardinality(desiredHost.PortBindings)
    /\ desiredHost.PortBindings \subseteq existing.hostConfig.PortBindings

\* compareContainerConfig, lines 1564-1591
compareContainerConfig(existing, desired, desiredHost) ==
    /\ compareBasicConfig(existing, desired)
    /\ compareHostConfig(existing, desiredHost)
    /\ compareMounts(existing, desiredHost)
    /\ comparePortConfig(existing, desired, desiredHost)

\* StopWorkload, lines 678-734
StopWorkload(E, workloadID) ==
    LET n == NameOf(E, workloadID)
    IN  IF n = NoName \/ ~E.containers[n].running THEN [E |-> E, err |-> "nil"]
        ELSE Let(ContainerStop(E, workloadID), LAMBDA s1 :
             Let(ContainerStop(s1.E, findExistingContainer(s1.E, egressContainerName(n))),
                 LAMBDA s2 :
             Let(ContainerStop(s2.E, findExistingContainer(s2.E, dnsContainerName(n))),
                 LAMBDA s3 : [E |-> s3.E, err |-> "nil"])))

\* RemoveWorkload, lines 799-802: the containers listed with toolhive=true
toolHiveContainers(E) ==
    {m \in ContainerNames : E.containers[m].exists
                            /\ <<"toolhive", "true">> \in E.containers[m].config.Labels}

\* RemoveWorkload, lines 808-820: the internal network is deleted, the
\* external one when the list was empty
RemoveWorkload_Delete(E, n, listed) ==
    LET d1 == deleteNetwork(E, internalNetworkName(n))
    IN  IF listed = {} THEN deleteNetwork(d1.E, ExternalNetwork).E ELSE d1.E

\* RemoveWorkload, lines 798-822: the networks go after the containers
RemoveWorkload_Networks(E, n) == RemoveWorkload_Delete(E, n, toolHiveContainers(E))

\* RemoveWorkload, lines 738-796: the containers; goOn tells that the call
\* goes on to the networks
RemoveWorkload_Containers(E, workloadID, emptyNotFound) ==
    LET n == NameOf(E, workloadID)
    IN  Let(ContainerRemove(E, workloadID, emptyNotFound), LAMBDA r1 :
        IF r1.err = "NotFound" THEN [E |-> r1.E, err |-> "nil", goOn |-> FALSE]
        ELSE IF r1.err # "nil" THEN [E |-> r1.E, err |-> r1.err, goOn |-> FALSE]
        ELSE
        Let(ContainerRemove(r1.E, findExistingContainer(r1.E, egressContainerName(n)),
                            emptyNotFound), LAMBDA r2 :
        IF r2.err = "NotFound" THEN [E |-> r2.E, err |-> "nil", goOn |-> FALSE]
        ELSE IF r2.err # "nil" THEN [E |-> r2.E, err |-> r2.err, goOn |-> FALSE]
        ELSE
        Let(ContainerRemove(r2.E, findExistingContainer(r2.E, dnsContainerName(n)),
                            emptyNotFound), LAMBDA r3 :
        IF r3.err = "NotFound" THEN [E |-> r3.E, err |-> "nil", goOn |-> FALSE]
        ELSE IF r3.err # "nil" THEN [E |-> r3.E, err |-> r3.err, goOn |-> FALSE]
        ELSE [E |-> r3.E, err |-> "nil", goOn |-> TRUE])))

\* RemoveWorkload, lines 738-823
RemoveWorkload(E, workloadID, emptyNotFound) ==
    LET n == NameOf(E, workloadID)
    IN  Let(RemoveWorkload_Containers(E, workloadID, emptyNotFound), LAMBDA r :
        IF r.goOn THEN [E |-> RemoveWorkload_Networks(r.E, n), err |-> "nil"]
        ELSE [E |-> r.E, err |-> r.err])

\* handleExistingContainer, lines 1595-1636
handleExistingContainer(E, containerID, desiredConfig, desiredHostConfig, emptyNotFound) ==
    LET info == E.containers[NameOf(E, containerID)]
    IN  IF compareContainerConfig(info, desiredConfig, desiredHostConfig)
        THEN IF ~info.running
             THEN Let(ContainerStart(E, containerID), LAMBDA s :
                      [E |-> s.E, canReuse |-> s.err = "nil", err |-> s.err])
             ELSE [E |-> E, canReuse |-> TRUE, err |-> "nil"]
        ELSE Let(StopWorkload(E, containerID), LAMBDA st :
             Let(RemoveWorkload(st.E, containerID, emptyNotFound), LAMBDA rm :
                 [E |-> rm.E, canReuse |-> FALSE, err |-> rm.err]))

\* createContainer, lines 316-362
createContainer(E, containerName, config, hostConfig, endpointsConfig, emptyNotFound) ==
    LET existingID == findExistingContainer(E, containerName)
    IN  Let(IF existingID # 0
            THEN handleExistingContainer(E, existingID, config, hostConfig, emptyNotFound)
            ELSE [E |-> E, canReuse |-> FALSE, err |-> "nil"], LAMBDA h :
        IF h.err # "nil" THEN [E |-> h.E, id |-> 0, err |-> h.err]
        ELSE IF h.canReuse THEN [E |-> h.E, id |-> existingID, err |-> "nil"]
        ELSE
        Let(ContainerCreate(h.E, containerName, config, hostConfig, endpointsConfig),
            LAMBDA c :
        IF c.err # "nil" THEN [E |-> c.E, id |-> 0, err |-> c.err]
        ELSE
        Let(ContainerStart(c.E, c.id), LAMBDA s :
        IF s.err # "nil" THEN [E |-> s.E, id |-> 0, err |-> s.err]
        ELSE [E |-> s.E, id |-> c.id, err |-> "nil"])))

\* createEgressContainers, lines 386-444: the configurations of the dns and
\* of the egress container; squidConfPath is the file of createTempSquidConf
sidecarConfig(image, containerName, attachStdio, exposedPorts) ==
    [Image |-> image, Cmd |-> <<>>, Env |-> {},
     Labels |-> AddStandardLabels(nameText(containerName)), AttachStdio |-> attachStdio,
     ExposedPorts |-> exposedPorts]

sidecarHostConfig(squidConfPath, capAdd, portBindings) ==
    [Mounts |-> {[Source |-> squidConfPath, Target |-> "/etc/squid/squid.conf",
                  ReadOnly |-> TRUE]},
     NetworkMode |-> "bridge", CapAdd |-> capAdd, CapDrop |-> <<>>, SecurityOpt |-> <<>>,
     RestartPolicy |-> "unless-stopped", PortBindings |-> portBindings, DNS |-> 0]

\* createEgressContainers, lines 364-484; os.CreateTemp gives a new path at
\* every call
createEgressContainers(E, w, attachStdio, options, fault, emptyNotFound) ==
    LET squidConfPath == <<"squid", E.nextTmp>>
        networkName == internalNetworkName(<<w, "main">>)
        endpointsConfig == {networkName, ExternalNetwork}
    IN  IF fault \in {"pullEgress", "pullDns", "createTemp"}
        THEN [E |-> E, dnsContainerIP |-> 0, err |-> fault]
        ELSE
        Let(createContainer([E EXCEPT !.nextTmp = @ + 1], <<w, "dns">>,
                            sidecarConfig(DnsImage, <<w, "dns">>, attachStdio, {}),
                            sidecarHostConfig(squidConfPath, <<>>, {}),
                            endpointsConfig, emptyNotFound), LAMBDA d :
        IF d.err # "nil" THEN [E |-> d.E, dnsContainerIP |-> 0, err |-> d.err]
        ELSE IF networkName \notin d.E.containers[<<w, "dns">>].endpoints
        THEN [E |-> d.E, dnsContainerIP |-> 0, err |-> "NoNetworkSettings"]
        ELSE
        Let(createContainer(d.E, <<w, "egress">>,
                            sidecarConfig(EgressImage, <<w, "egress">>, attachStdio,
                                          options.ExposedPorts),
                            sidecarHostConfig(squidConfPath, <<"CAP_SETUID", "CAP_SETGID">>,
                                              options.PortBindings),
                            endpointsConfig, emptyNotFound), LAMBDA e :
        IF e.err # "nil" THEN [E |-> e.E, dnsContainerIP |-> 0, err |-> e.err]
        ELSE [E |-> e.E, dnsContainerIP |-> d.id, err |-> "nil"]))

isMcpWorkload_Never(name) == FALSE

\* DeployWorkload, line 519
isMcpWorkload(name) == name # "inspector"

mainEndpoints_Both(name, networkName) == {networkName, ExternalNetwork}

\* DeployWorkload, lines 607-613: the networks of the main container
mainEndpoints(name, networkName) ==
    IF ~isMcpWorkload(name) THEN {networkName, ExternalNetwork} ELSE {networkName}

\* DeployWorkload, lines 550-559: the proxy variables replace what the
\* caller gave under the same keys
proxyEnv(w) ==
    {<<k, "http://" \o nameText(<<w, "egress">>) \o ":3128">> :
        k \in {"HTTP_PROXY", "HTTPS_PROXY", "http_proxy", "https_proxy"}}
    \cup {<<"NO_PROXY", "localhost,127.0.0.1,::1">>, <<"no_proxy", "localhost,127.0.0.1,::1">>}

\* DeployWorkload, lines 563-604: the configuration of the main container
mainConfig(w, spec, attachStdio) ==
    [Image |-> spec.image, Cmd |-> spec.command,
     Env |-> IF isMcpWorkload(w)
             THEN {kv \in spec.envVars : \A p \in proxyEnv(w) : p[1] # kv[1]} \cup proxyEnv(w)
             ELSE spec.envVars,
     Labels |-> {kv \in spec.labels : kv[1] # "toolhive-main-workload"}
                \cup {<<"toolhive-main-workload", "true">>},
     AttachStdio |-> attachStdio,
     ExposedPorts |-> IF spec.options.isNil THEN {} ELSE spec.options.ExposedPorts]

\* getPermissionConfigFromProfile, lines 1270-1293, and DeployWorkload,
\* lines 579-604
mainHostConfig(spec, additionalDNS) ==
    [Mounts |-> spec.mounts, NetworkMode |-> "none", CapAdd |-> <<>>, CapDrop |-> <<"ALL">>,
     SecurityOpt |-> <<>>, RestartPolicy |-> "unless-stopped",
     PortBindings |-> IF spec.options.isNil THEN {} ELSE spec.options.PortBindings,
     DNS |-> additionalDNS]

\* DeployWorkload, lines 507-620.  options is dereferenced for a workload
\* with sidecars: a nil options panics there.
DeployWorkload(E, name, spec, fault, emptyNotFound) ==
    LET attachStdio == spec.options.isNil \/ spec.options.AttachStdio
        networkName == internalNetworkName(<<name, "main">>)
    IN  IF spec.transportType \notin {"sse", "stdio", "inspector"}
        THEN [E |-> E, id |-> 0, err |-> "UnsupportedTransport"]
        ELSE
        Let(createContainerNetworks(E, networkName, ExternalNetwork), LAMBDA E1 :
        IF isMcpWorkload(name) /\ spec.options.isNil
        THEN [E |-> E1, id |-> 0, err |-> "panic"]
        ELSE
        Let(IF isMcpWorkload(name)
            THEN createEgressContainers(E1, name, attachStdio, spec.options, fault,
                                        emptyNotFound)
            ELSE [E |-> E1, dnsContainerIP |-> 0, err |-> "nil"], LAMBDA eg :
        IF eg.err # "nil" THEN [E |-> eg.E, id |-> 0, err |-> eg.err]
        ELSE createContainer(eg.E, <<name, "main">>, mainConfig(name, spec, attachStdio),
                             mainHostConfig(spec, eg.dnsContainerIP),
                             mainEndpoints(name, networkName), emptyNotFound)))

\* ListWorkloads, lines 623-674: the names of the containers listed
ListWorkloads(E) ==
    {n \in ContainerNames :
        /\ E.containers[n].exists
        /\ <<"toolhive", "true">> \in E.containers[n].config.Labels
        /\ <<"toolhive-main-workload", "true">> \in E.containers[n].config.Labels}

(*------------------------- the calls of the API ------------------------*)

NoContainers == [n \in ContainerNames |-> Absent]

\* the main container of a workload
MainOf(w) == <<w, "main">>

\* no call is under way on a workload
Idle == [pc |-> "idle", listed |-> {}, id |-> 0]

NoEngine ==
    [containers |-> NoContainers, networks |-> {}, nextId |-> 1, nextTmp |-> 1, ops |-> <<>>]

NoPre == [main |-> Absent, allRunning |-> FALSE]

NoCall ==
    [api |-> "none", name |-> "", spec |-> NoSpec, fault |-> "none", id |-> 0,
     err |-> "nil", pre |-> NoPre]

InitDeploy ==
    /\ engine = NoEngine
    /\ emptyIdNotFound \in BOOLEAN
    /\ deployCount = 0
    /\ lastCall = NoCall
    /\ inCall = [w \in Workloads |-> Idle]

\* no engine is attached in the specifications of the other machines
ParkedDeploy ==
    /\ engine = <<>>
    /\ emptyIdNotFound = TRUE
    /\ deployCount = 0
    /\ lastCall = <<>>
    /\ inCall = <<>>

\* the containers of a workload: an MCP workload has its two sidecars
ContainersOf(w) ==
    IF isMcpWorkload(w) THEN {<<w, r>> : r \in Roles} ELSE {<<w, "main">>}

\* what the engine held for a workload when a call began
Before(w) ==
    [main |-> engine.containers[<<w, "main">>],
     allRunning |-> \A n \in ContainersOf(w) : engine.containers[n].running]

\* one call of DeployWorkload, from a caller that passes labels of the
\* labels package
CallDeployWorkload(w, spec, fault) ==
    /\ deployCount < MaxDeploys
    /\ \E r \in {DeployWorkload([engine EXCEPT !.ops = <<>>], w, spec, fault,
                           emptyIdNotFound)} :
           /\ engine' = r.E
           /\ lastCall' = [api |-> "deploy", name |-> w, spec |-> spec, fault |-> fault,
                           id |-> r.id, err |-> r.err, pre |-> Before(w)]
    /\ deployCount' = deployCount + 1
    /\ UNCHANGED <<emptyIdNotFound, inCall>>
    /\ UNCHANGED <<lineVars, aclVars, stopVars, bridgeVars, postVars, srvVars, cliVars, rdVars, runVars>>

\* one call of StopWorkload with the id of the main container of w
CallStopWorkload(w) ==
    /\ engine.containers[<<w, "main">>].running
    /\ \E r \in {StopWorkload([engine EXCEPT !.ops = <<>>],
                         engine.containers[<<w, "main">>].id)} :
           /\ engine' = r.E
           /\ lastCall' = [api |-> "stop", name |-> w, spec |-> NoSpec, fault |-> "none",
                           id |-> 0, err |-> r.err, pre |-> Before(w)]
    /\ UNCHANGED <<emptyIdNotFound, deployCount, inCall>>
    /\ UNCHANGED <<lineVars, aclVars, stopVars, bridgeVars, postVars, srvVars, cliVars, rdVars, runVars>>

\* one call of RemoveWorkload with the id of the main container of w
CallRemoveWorkload(w) ==
    /\ engine.containers[<<w, "main">>].exists
    /\ \E r \in {RemoveWorkload([engine EXCEPT !.ops = <<>>],
                           engine.containers[<<w, "main">>].id, emptyIdNotFound)} :
           /\ engine' = r.E
           /\ lastCall' = [api |-> "remove", name |-> w, spec |-> NoSpec, fault |-> "none",
                           id |-> 0, err |-> r.err, pre |-> Before(w)]
    /\ UNCHANGED <<emptyIdNotFound, deployCount, inCall>>
    /\ UNCHANGED <<lineVars, aclVars, stopVars, bridgeVars, postVars, srvVars, cliVars, rdVars, runVars>>

\* the networks of the model
NetworkNames == {internalNetworkName(<<w, "main">>) : w \in Workloads} \cup {ExternalNetwork}

\* one call of createNetwork; the call is recorded under the workload of
\* the network, which is empty for the external network
CallCreateNetwork(name) ==
    /\ engine' = createNetwork([engine EXCEPT !.ops = <<>>], name)
    /\ lastCall' = [api |-> "createNetwork", name |-> name[2], spec |-> NoSpec,
                    fault |-> "none", id |-> 0, err |-> "nil", pre |-> NoPre]
    /\ UNCHANGED <<emptyIdNotFound, deployCount, inCall>>
    /\ UNCHANGED <<lineVars, aclVars, stopVars, bridgeVars, postVars, srvVars, cliVars, rdVars, runVars>>

\* one call of deleteNetwork
CallDeleteNetwork(name) ==
    /\ \E r \in {deleteNetwork([engine EXCEPT !.ops = <<>>], name)} :
           /\ engine' = r.E
           /\ lastCall' = [api |-> "deleteNetwork", name |-> name[2], spec |-> NoSpec,
                           fault |-> "none", id |-> 0, err |-> r.err, pre |-> NoPre]
    /\ UNCHANGED <<emptyIdNotFound, deployCount, inCall>>
    /\ UNCHANGED <<lineVars, aclVars, stopVars, bridgeVars, postVars, srvVars, cliVars, rdVars, runVars>>

(***************************************************************************)
(* Calls on the engine that overlap (SpecRace).                            *)
(*                                                                         *)
(* RemoveWorkload is cut after it has listed the containers, before it     *)
(* deletes the networks.  DeployWorkload of a workload without sidecars    *)
(* that the engine does not hold is cut between ContainerCreate and        *)
(* ContainerStart.  The other calls are taken whole.                       *)
(***************************************************************************)

\* RemoveWorkload, lines 738-805
RemoveWorkload_Begin(w) ==
    /\ inCall[w] = Idle
    /\ engine.containers[MainOf(w)].exists
    /\ \E r \in {RemoveWorkload_Containers([engine EXCEPT !.ops = <<>>],
                                      engine.containers[MainOf(w)].id, emptyIdNotFound)} :
           /\ engine' = r.E
           /\ IF r.goOn
              THEN /\ inCall' = [inCall EXCEPT ![w] = [pc |-> "remove",
                                                      listed |-> toolHiveContainers(r.E),
                                                      id |-> 0]]
                   /\ UNCHANGED lastCall
              ELSE /\ lastCall' = [NoCall EXCEPT !.api = "remove", !.name = w, !.err = r.err]
                   /\ UNCHANGED inCall
    /\ UNCHANGED <<emptyIdNotFound, deployCount>>
    /\ UNCHANGED <<lineVars, aclVars, stopVars, bridgeVars, postVars, srvVars, cliVars, rdVars, runVars>>

\* RemoveWorkload, lines 806-822
RemoveWorkload_End(w) ==
    /\ inCall[w].pc = "remove"
    /\ engine' = RemoveWorkload_Delete(engine, MainOf(w), inCall[w].listed)
    /\ inCall' = [inCall EXCEPT ![w] = Idle]
    /\ lastCall' = [NoCall EXCEPT !.api = "remove", !.name = w]
    /\ UNCHANGED <<emptyIdNotFound, deployCount>>
    /\ UNCHANGED <<lineVars, aclVars, stopVars, bridgeVars, postVars, srvVars, cliVars, rdVars, runVars>>

\* DeployWorkload, lines 507-613, and createContainer, lines 316-353, for a
\* workload without sidecars that the engine does not hold: the networks,
\* then ContainerCreate
DeployWorkload_Create(w) ==
    /\ inCall[w] = Idle
    /\ deployCount < MaxDeploys
    /\ ~isMcpWorkload(w)
    /\ findExistingContainer(engine, MainOf(w)) = 0
    /\ LET spec == BaseSpec(w)
           networkName == internalNetworkName(MainOf(w))
       IN  \E c \in {ContainerCreate(
                        createContainerNetworks([engine EXCEPT !.ops = <<>>], networkName,
                                                ExternalNetwork),
                        MainOf(w), mainConfig(w, spec, spec.options.AttachStdio),
                        mainHostConfig(spec, 0), mainEndpoints(w, networkName))} :
               /\ engine' = c.E
               /\ inCall' = [inCall EXCEPT ![w] = [pc |-> "deploy", listed |-> {},
                                                   id |-> c.id]]
    /\ deployCount' = deployCount + 1
    /\ UNCHANGED <<emptyIdNotFound, lastCall>>
    /\ UNCHANGED <<lineVars, aclVars, stopVars, bridgeVars, postVars, srvVars, cliVars, rdVars, runVars>>

\* createContainer, lines 355-361: ContainerStart, and the call returns
DeployWorkload_Start(w) ==
    /\ inCall[w].pc = "deploy"
    /\ \E s \in {ContainerStart(engine, inCall[w].id)} :
           /\ engine' = s.E
           /\ lastCall' = [NoCall EXCEPT !.api = "deploy", !.name = w, !.spec = BaseSpec(w),
                                         !.id = IF s.err = "nil" THEN inCall[w].id ELSE 0,
                                         !.err = s.err]
    /\ inCall' = [inCall EXCEPT ![w] = Idle]
    /\ UNCHANGED <<emptyIdNotFound, deployCount>>
    /\ UNCHANGED <<lineVars, aclVars, stopVars, bridgeVars, postVars, srvVars, cliVars, rdVars, runVars>>

(***************************************************************************)
(* One workload under its transport, on the engine (SpecCrash).            *)
(*                                                                         *)
(* The transport creates the workload in Setup, Start attaches to it, and  *)
(* containerUp is what the engine holds for the main container.            *)
(***************************************************************************)
Supervised == "w1"

\* Setup, lines 477-519: the container of the workload is created through
\* the runtime, once for a transport
Setup_Deploy ==
    /\ ~stopPanicked
    /\ deployCount = 0
    /\ \E r \in {DeployWorkload([engine EXCEPT !.ops = <<>>], Supervised,
                           BaseSpec(Supervised), "none", emptyIdNotFound)} :
           /\ engine' = r.E
           /\ lastCall' = [api |-> "deploy", name |-> Supervised,
                           spec |-> BaseSpec(Supervised), fault |-> "none",
                           id |-> r.id, err |-> r.err, pre |-> Before(Supervised)]
           /\ containerUp' = r.E.containers[MainOf(Supervised)].running
    /\ deployCount' = deployCount + 1
    /\ UNCHANGED <<inCall, emptyIdNotFound, shutdownCh, mutex, monitor, stdin, httpProxy,
                   proxyShutdownCh, stopCh, monRunning, monitorPC, errorCh, stPC, exitPC,
                   stopPanicked, teardown, did, sawClosed, history>>
    /\ UNCHANGED <<lineVars, aclVars, bridgeVars, postVars, srvVars, cliVars, rdVars, runVars, monVars>>

\* the main container of the started workload is killed from outside
ContainerKilled ==
    /\ ~stopPanicked
    /\ containerUp
    /\ "start" \in Range(history)
    /\ ~shutdownCh
    /\ engine' = [engine EXCEPT !.containers[MainOf(Supervised)].running = FALSE]
    /\ containerUp' = FALSE
    /\ history' = Append(history, "killed")
    /\ UNCHANGED <<inCall, emptyIdNotFound, deployCount, lastCall, shutdownCh, mutex, monitor, stdin,
                   httpProxy, proxyShutdownCh, stopCh, monRunning, monitorPC, errorCh, stPC,
                   exitPC, stopPanicked, teardown, did, sawClosed>>
    /\ UNCHANGED <<lineVars, aclVars, bridgeVars, postVars, srvVars, cliVars, rdVars, runVars, monVars>>

\* Stop, lines 632-638, with the runtime's StopWorkload on the engine
Stop_StopWorkload(c) ==
    /\ ~stopPanicked
    /\ stPC[c] = "stopping"
    /\ Executed(c, "container")
    /\ \E r \in {StopWorkload([engine EXCEPT !.ops = <<>>],
                         engine.containers[MainOf(Supervised)].id)} :
           /\ engine' = r.E
           /\ containerUp' = r.E.containers[MainOf(Supervised)].running
    /\ Returned(c)
    /\ mutex' = FALSE
    /\ UNCHANGED <<inCall, emptyIdNotFound, deployCount, lastCall, shutdownCh, monitor, stdin,
                   httpProxy, proxyShutdownCh, stopCh, monRunning, monitorPC, errorCh,
                   stopPanicked, sawClosed, history>>
    /\ UNCHANGED <<lineVars, aclVars, bridgeVars, postVars, srvVars, cliVars, rdVars, runVars, monVars>>

(***************************************************************************)
(* One Monitor under calls of StartMonitoring and StopMonitoring           *)
(* (SpecMonitor).                                                          *)
(***************************************************************************)

\* NewMonitor, lines 23-31, for a container that is running
InitMonitor ==
    /\ m_running = FALSE
    /\ m_stopCh = FALSE
    /\ m_errorCh = <<>>
    /\ m_wg = 0
    /\ m_mutex = FALSE
    /\ m_up = TRUE
    /\ m_panicked = FALSE
    /\ m_calls = 0
    /\ m_closes = 0
    /\ m_ticks = 0

ParkedMonitor ==
    /\ m_running = FALSE
    /\ m_stopCh = FALSE
    /\ m_errorCh = <<>>
    /\ m_wg = 0
    /\ m_mutex = FALSE
    /\ m_up = FALSE
    /\ m_panicked = FALSE
    /\ m_calls = 0
    /\ m_closes = 0
    /\ m_ticks = 0


MonitorFrame ==
    UNCHANGED <<lineVars, aclVars, stopVars, deployVars, srvVars, cliVars, rdVars, bridgeVars,
                postVars, taskVars>>

\* runtime.IsContainerRunning, docker/client.go 438-450: what one inspect
\* of a container that is up, or is not, can answer
inspect(up) ==
    (IF up
     THEN {[running |-> TRUE, err |-> "nil"]}
     ELSE {[running |-> FALSE, err |-> "nil"], [running |-> FALSE, err |-> "not found"]})
    \cup {[running |-> FALSE, err |-> "inspect failed"]}

\* StartMonitoring, lines 34-58, with the answer r of its inspect
StartMonitoring(r) ==
    /\ ~m_panicked
    /\ ~m_mutex
    /\ m_calls < MaxMonitorCalls
    /\ m_calls' = m_calls + 1
    /\ IF m_running \/ r.err # "nil" \/ ~r.running
       THEN UNCHANGED <<m_running, m_wg>>
       ELSE /\ m_running' = TRUE
            /\ m_wg' = m_wg + 1
    /\ UNCHANGED <<m_stopCh, m_errorCh, m_mutex, m_up, m_panicked, m_closes, m_ticks>>
    /\ MonitorFrame

\* StopMonitoring, lines 61-69: up to close(m.stopCh); the close of a
\* closed channel panics, and the deferred Unlock runs
StopMonitoring_Close ==
    /\ ~m_panicked
    /\ ~m_mutex
    /\ m_calls < MaxMonitorCalls
    /\ m_calls' = m_calls + 1
    /\ IF ~m_running
       THEN UNCHANGED <<m_stopCh, m_mutex, m_panicked, m_closes>>
       ELSE /\ m_closes' = m_closes + 1
            /\ m_stopCh' = TRUE
            /\ m_panicked' = m_stopCh
            /\ m_mutex' = ~m_stopCh
    /\ UNCHANGED <<m_running, m_errorCh, m_wg, m_up, m_ticks>>
    /\ MonitorFrame

\* StopMonitoring, lines 70-71: wg.Wait returns, running is cleared and
\* the mutex released
StopMonitoring_Wait ==
    /\ ~m_panicked
    /\ m_mutex
    /\ m_wg = 0
    /\ m_running' = FALSE
    /\ m_mutex' = FALSE
    /\ UNCHANGED <<m_stopCh, m_errorCh, m_wg, m_up, m_panicked, m_calls, m_closes, m_ticks>>
    /\ MonitorFrame

\* Monitor.monitor, lines 86-88: the goroutine sees stopCh closed and ends
monitor_StopCh ==
    /\ ~m_panicked
    /\ m_wg > 0
    /\ m_stopCh
    /\ m_wg' = m_wg - 1
    /\ UNCHANGED <<m_running, m_stopCh, m_errorCh, m_mutex, m_up, m_panicked, m_calls,
                   m_closes, m_ticks>>
    /\ MonitorFrame

\* Monitor.monitor, lines 89-121: a tick with the answer r of the inspect
monitor_TickerC(r) ==
    /\ ~m_panicked
    /\ m_wg > 0
    /\ IF sendsEvent(r)
       THEN /\ Len(m_errorCh) < 1
            /\ m_errorCh' = Append(m_errorCh, "exited")
            /\ m_wg' = m_wg - 1
            /\ m_ticks' = m_ticks
       ELSE /\ m_ticks < MaxTicks
            /\ m_ticks' = m_ticks + 1
            /\ UNCHANGED <<m_errorCh, m_wg>>
    /\ UNCHANGED <<m_running, m_stopCh, m_mutex, m_up, m_panicked, m_calls, m_closes>>
    /\ MonitorFrame

\* the container exits
Monitor_ContainerExits ==
    /\ ~m_panicked
    /\ m_up
    /\ m_up' = FALSE
    /\ UNCHANGED <<m_running, m_stopCh, m_errorCh, m_wg, m_mutex, m_panicked, m_calls,
                   m_closes, m_ticks>>
    /\ MonitorFrame

\* the owner of the Monitor takes the exit error off errorCh
Monitor_Receive ==
    /\ ~m_panicked
    /\ m_errorCh # <<>>
    /\ m_errorCh' = Tail(m_errorCh)
    /\ UNCHANGED <<m_running, m_stopCh, m_wg, m_mutex, m_up, m_panicked, m_calls, m_closes,
                   m_ticks>>
    /\ MonitorFrame

(***************************************************************************)
(* The tasks of one StdioTransport: Start, the goroutines it starts, Stop  *)
(* and the cancellation of the context (SpecTasks).                        *)
(***************************************************************************)

\* a transport after SetContainer... and before Start
InitTasks ==
    /\ t_start = "idle"
    /\ t_listener = "none"
    /\ t_pm = "none"
    /\ t_waiter = "none"
    /\ t_reader = "none"
    /\ t_poller = "none"
    /\ t_exit = "none"
    /\ t_caller = "idle"
    /\ t_ctx = FALSE
    /\ t_pctx = FALSE
    /\ t_shutdownCh = FALSE
    /\ t_stopCh = FALSE
    /\ t_monitor = FALSE
    /\ t_errorCh = <<>>
    /\ t_up = TRUE
    /\ t_stopped = FALSE

ParkedTasks ==
    /\ t_start = "off"
    /\ t_listener = "none"
    /\ t_pm = "none"
    /\ t_waiter = "none"
    /\ t_reader = "none"
    /\ t_poller = "none"
    /\ t_exit = "none"
    /\ t_caller = "idle"
    /\ t_ctx = FALSE
    /\ t_pctx = FALSE
    /\ t_shutdownCh = FALSE
    /\ t_stopCh = FALSE
    /\ t_monitor = FALSE
    /\ t_errorCh = <<>>
    /\ t_up = FALSE
    /\ t_stopped = FALSE

ParkedRun == ParkedMonitor /\ ParkedTasks

TasksFrame ==
    UNCHANGED <<lineVars, aclVars, stopVars, deployVars, srvVars, cliVars, rdVars, bridgeVars,
                postVars, mnVars>>

\* what a call of Start can meet: AttachContainer fails, NewFactory().Create
\* fails, or both succeed
StartFaults == {"attach", "factory", "none"}

\* StdioTransport.Start, lines 523-573, with the fault f it meets and the
\* answer r of the inspect of StartMonitoring (monitor.go 43-49)
Start(f, r) ==
    /\ t_start = "idle"
    /\ IF f = "attach"
       THEN /\ t_start' = "error"
            /\ UNCHANGED <<t_listener, t_pm, t_monitor, t_poller, t_exit>>
       ELSE /\ t_listener' = "serving"
            /\ t_pm' = "spawned"
            /\ IF f = "factory"
               THEN /\ t_start' = "error"
                    /\ UNCHANGED <<t_monitor, t_poller, t_exit>>
               ELSE /\ t_monitor' = TRUE
                    /\ IF r.err # "nil" \/ ~r.running
                       THEN /\ t_start' = "error"
                            /\ UNCHANGED <<t_poller, t_exit>>
                       ELSE /\ t_start' = "ok"
                            /\ t_poller' = "polling"
                            /\ t_exit' = "wait"
    /\ UNCHANGED <<t_waiter, t_reader, t_caller, t_ctx, t_pctx, t_shutdownCh, t_stopCh,
                   t_errorCh, t_up, t_stopped>>
    /\ TasksFrame

\* ctx.Done() of the context processMessages derives, lines 658-659
pctxDone == t_ctx \/ t_pctx

\* processMessages, lines 656-674: the goroutine starts the waiter and the
\* stdout reader and enters its loop
processMessages_Begin ==
    /\ t_pm = "spawned"
    /\ t_pm' = "loop"
    /\ t_waiter' = "waiting"
    /\ t_reader' = "select"
    /\ UNCHANGED <<t_start, t_listener, t_poller, t_exit, t_caller, t_ctx, t_pctx,
                   t_shutdownCh, t_stopCh, t_monitor, t_errorCh, t_up, t_stopped>>
    /\ TasksFrame

\* processMessages, lines 676-679 and 659: ctx.Done() in the loop, and the
\* deferred cancel
processMessages_Done ==
    /\ t_pm = "loop"
    /\ pctxDone
    /\ t_pm' = "returned"
    /\ t_pctx' = TRUE
    /\ UNCHANGED <<t_start, t_listener, t_waiter, t_reader, t_poller, t_exit, t_caller, t_ctx,
                   t_shutdownCh, t_stopCh, t_monitor, t_errorCh, t_up, t_stopped>>
    /\ TasksFrame

\* processMessages, lines 662-669: the waiter sees shutdownCh closed and
\* cancels, or sees the context done
waiter_Select ==
    /\ t_waiter = "waiting"
    /\ \/ /\ t_shutdownCh
          /\ t_pctx' = TRUE
       \/ /\ pctxDone
          /\ t_pctx' = t_pctx
    /\ t_waiter' = "returned"
    /\ UNCHANGED <<t_start, t_listener, t_pm, t_reader, t_poller, t_exit, t_caller, t_ctx,
                   t_shutdownCh, t_stopCh, t_monitor, t_errorCh, t_up, t_stopped>>
    /\ TasksFrame

\* processStdout, lines 698-704: the select at the head of the loop
processStdout_Select ==
    /\ t_reader = "select"
    /\ t_reader' = IF pctxDone THEN "returned" ELSE "reading"
    /\ UNCHANGED <<t_start, t_listener, t_pm, t_waiter, t_poller, t_exit, t_caller, t_ctx,
                   t_pctx, t_shutdownCh, t_stopCh, t_monitor, t_errorCh, t_up, t_stopped>>
    /\ TasksFrame

\* processStdout, lines 704-719: the container writes and Read returns the
\* bytes
processStdout_Data ==
    /\ t_reader = "reading"
    /\ t_up
    /\ t_reader' = "select"
    /\ UNCHANGED <<t_start, t_listener, t_pm, t_waiter, t_poller, t_exit, t_caller, t_ctx,
                   t_pctx, t_shutdownCh, t_stopCh, t_monitor, t_errorCh, t_up, t_stopped>>
    /\ TasksFrame

\* processStdout, lines 704-711: the stream of a stopped container ends and
\* Read returns io.EOF
processStdout_EOF ==
    /\ t_reader = "reading"
    /\ ~t_up
    /\ t_reader' = "returned"
    /\ UNCHANGED <<t_start, t_listener, t_pm, t_waiter, t_poller, t_exit, t_caller, t_ctx,
                   t_pctx, t_shutdownCh, t_stopCh, t_monitor, t_errorCh, t_up, t_stopped>>
    /\ TasksFrame

\* Monitor.monitor, lines 86-88: stopCh is closed
poller_StopCh ==
    /\ t_poller = "polling"
    /\ t_stopCh
    /\ t_poller' = "returned"
    /\ UNCHANGED <<t_start, t_listener, t_pm, t_waiter, t_reader, t_exit, t_caller, t_ctx,
                   t_pctx, t_shutdownCh, t_stopCh, t_monitor, t_errorCh, t_up, t_stopped>>
    /\ TasksFrame

\* Monitor.monitor, lines 89-121: a tick whose inspect answers r and that
\* sends the exit error; every other tick changes nothing
poller_Exit(r) ==
    /\ t_poller = "polling"
    /\ sendsEvent(r)
    /\ Len(t_errorCh) < 1
    /\ t_errorCh' = Append(t_errorCh, "exited")
    /\ t_poller' = "returned"
    /\ UNCHANGED <<t_start, t_listener, t_pm, t_waiter, t_reader, t_exit, t_caller, t_ctx,
                   t_pctx, t_shutdownCh, t_stopCh, t_monitor, t_up, t_stopped>>
    /\ TasksFrame

\* Stop, lines 576-604: the checks of shutdownCh; when it is open it is
\* closed and StopMonitoring closes stopCh.  Gives the next position of the
\* caller: "inStop", or "out" when Stop returned at once.
Stop_Close(next) ==
    IF t_shutdownCh
    THEN /\ next = "out"
         /\ UNCHANGED <<t_shutdownCh, t_stopCh>>
    ELSE /\ next = "inStop"
         /\ t_shutdownCh' = TRUE
         /\ t_stopCh' = IF t_monitor THEN TRUE ELSE t_stopCh

\* Stop, lines 576-604, called by the owner of the transport
Stop_Begin ==
    /\ t_start \in {"ok", "error"}
    /\ t_caller = "idle"
    /\ \E next \in {"out", "inStop"} :
          /\ Stop_Close(next)
          /\ t_caller' = IF next = "out" THEN "done" ELSE "inStop"
    /\ UNCHANGED <<t_start, t_listener, t_pm, t_waiter, t_reader, t_poller, t_exit, t_ctx,
                   t_pctx, t_monitor, t_errorCh, t_up, t_stopped>>
    /\ TasksFrame

\* Stop, lines 602-638: wg.Wait of StopMonitoring has returned; the proxy
\* is stopped, stdin closed and the container stopped, unless StopContainer
\* fails (stopFails)
Stop_Rest(stopFails) ==
    /\ t_monitor => t_poller # "polling"
    /\ t_monitor' = FALSE
    /\ t_listener' = IF t_listener = "serving" THEN "stopped" ELSE t_listener
    /\ t_up' = (t_up /\ stopFails)
    /\ t_stopped' = TRUE

Stop_Finish(stopFails) ==
    /\ t_caller = "inStop"
    /\ Stop_Rest(stopFails)
    /\ t_caller' = "done"
    /\ UNCHANGED <<t_start, t_pm, t_waiter, t_reader, t_poller, t_exit, t_ctx, t_pctx,
                   t_shutdownCh, t_stopCh, t_errorCh>>
    /\ TasksFrame

\* handleContainerExit, lines 857-860: the context is done
handleContainerExit_Done ==
    /\ t_exit = "wait"
    /\ t_ctx
    /\ t_exit' = "returned"
    /\ UNCHANGED <<t_start, t_listener, t_pm, t_waiter, t_reader, t_poller, t_caller, t_ctx,
                   t_pctx, t_shutdownCh, t_stopCh, t_monitor, t_errorCh, t_up, t_stopped>>
    /\ TasksFrame

\* handleContainerExit, lines 861-885: the exit error arrives; the handler
\* returns when shutdownCh is closed and calls Stop otherwise
handleContainerExit_Event ==
    /\ t_exit = "wait"
    /\ t_errorCh # <<>>
    /\ t_errorCh' = Tail(t_errorCh)
    /\ \E next \in {"out", "inStop"} :
          /\ Stop_Close(next)
          /\ t_exit' = IF next = "out" THEN "returned" ELSE "inStop"
    /\ UNCHANGED <<t_start, t_listener, t_pm, t_waiter, t_reader, t_poller, t_caller, t_ctx,
                   t_pctx, t_monitor, t_up, t_stopped>>
    /\ TasksFrame

\* handleContainerExit, lines 881-883: the Stop it called returns
handleContainerExit_Stopped(stopFails) ==
    /\ t_exit = "inStop"
    /\ Stop_Rest(stopFails)
    /\ t_exit' = "returned"
    /\ UNCHANGED <<t_start, t_pm, t_waiter, t_reader, t_poller, t_caller, t_ctx, t_pctx,
                   t_shutdownCh, t_stopCh, t_errorCh>>
    /\ TasksFrame

\* the owner cancels the context it gave to Start
Tasks_Cancel ==
    /\ t_start # "idle"
    /\ ~t_ctx
    /\ t_ctx' = TRUE
    /\ UNCHANGED <<t_start, t_listener, t_pm, t_waiter, t_reader, t_poller, t_exit, t_caller,
                   t_pctx, t_shutdownCh, t_stopCh, t_monitor, t_errorCh, t_up, t_stopped>>
    /\ TasksFrame

\* the container exits by itself
Tasks_ContainerExits ==
    /\ t_up
    /\ t_up' = FALSE
    /\ UNCHANGED <<t_start, t_listener, t_pm, t_waiter, t_reader, t_poller, t_exit, t_caller,
                   t_ctx, t_pctx, t_shutdownCh, t_stopCh, t_monitor, t_errorCh, t_stopped>>
    /\ TasksFrame

(***************************************************************************)
(* The stdout reader: processStdout and processBuffer (SpecStdout).        *)
(***************************************************************************)

\* what the container writes on one line, the empty line included
LineTexts == SampleLines \cup {<<>>}

\* the beginnings of a line that the container has not yet ended
PartialLines == {<<>>, <<"{">>, <<"{", "a">>}

\* the streams of at most n ended lines
RECURSIVE EndedLines(_)
EndedLines(n) ==
    IF n = 0 THEN {<<>>}
    ELSE EndedLines(n - 1) \cup
         {s \o l \o <<"\n">> : s \in EndedLines(n - 1), l \in LineTexts}

\* the byte streams of the container's stdout
Streams == {s \o t : s \in EndedLines(MaxStreamLines), t \in PartialLines}

\* buffer.ReadString('\n'), line 729: the position of the first newline of
\* the buffer, 0 for io.EOF
ReadString(buf) == Index(buf, "\n")

\* a processBuffer that does not put an unfinished line back
RECURSIVE processBuffer_NoPutBack(_)
processBuffer_NoPutBack(buf) ==
    IF ReadString(buf) = 0 THEN [lines |-> <<>>, rest |-> <<>>]
    ELSE LET i    == ReadString(buf)
             line == SubSeq(buf, 1, i - 1)
             r    == processBuffer_NoPutBack(SubSeq(buf, i + 1, Len(buf)))
         IN  [lines |-> IF line # <<>> THEN <<line>> \o r.lines ELSE r.lines,
              rest  |-> r.rest]

\* processBuffer, lines 726-748, on the buffer buf: the non-empty lines it
\* hands to parseAndForwardJSONRPC, in order, and what it puts back
RECURSIVE processBuffer(_)
processBuffer(buf) ==
    IF ReadString(buf) = 0 THEN [lines |-> <<>>, rest |-> buf]
    ELSE LET i    == ReadString(buf)
             line == SubSeq(buf, 1, i - 1)
             r    == processBuffer(SubSeq(buf, i + 1, Len(buf)))
         IN  [lines |-> IF line # <<>> THEN <<line>> \o r.lines ELSE r.lines,
              rest  |-> r.rest]

\* a reader that gives up at the first line it cannot parse
RECURSIVE forwardLines_StopAtError(_)
forwardLines_StopAtError(lines) ==
    IF lines = <<>> THEN <<>>
    ELSE IF parseLine(Head(lines)) = NoMessage THEN <<>>
    ELSE <<parseLine(Head(lines))>> \o forwardLines_StopAtError(Tail(lines))

\* parseAndForwardJSONRPC, lines 793-833, on each line in turn: the messages
\* handed to ForwardResponseToClients; a line that does not decode is
\* logged and dropped
RECURSIVE forwardLines(_)
forwardLines(lines) ==
    IF lines = <<>> THEN <<>>
    ELSE (IF parseLine(Head(lines)) = NoMessage THEN <<>> ELSE <<parseLine(Head(lines))>>)
         \o forwardLines(Tail(lines))

InitReader ==
    /\ stdout \in Streams
    /\ buffer = <<>>
    /\ consumed = <<>>
    /\ handed = <<>>
    /\ delivered = <<>>
    /\ joined = 0

ParkedReader ==
    /\ stdout = <<>>
    /\ buffer = <<>>
    /\ consumed = <<>>
    /\ handed = <<>>
    /\ delivered = <<>>
    /\ joined = 0

ReaderFrame ==
    UNCHANGED <<lineVars, aclVars, stopVars, deployVars, srvVars, cliVars, bridgeVars, postVars, runVars>>

\* processStdout, lines 700-720: one Read that returns n bytes, with the
\* call of processBuffer that follows it
processStdout_Read(n) ==
    /\ n \in 1..Len(stdout)
    /\ n <= MaxChunk
    /\ \E r \in {processBuffer(buffer \o SubSeq(stdout, 1, n))} :
          /\ buffer' = r.rest
          /\ handed' = handed \o r.lines
          /\ delivered' = delivered \o forwardLines(r.lines)
          /\ joined' = IF buffer # <<>> /\ r.lines # <<>> THEN joined + 1 ELSE joined
    /\ consumed' = consumed \o SubSeq(stdout, 1, n)
    /\ stdout' = SubSeq(stdout, n + 1, Len(stdout))
    /\ ReaderFrame

(***************************************************************************)
(* The external commands rm and logs: the container an argument names.     *)
(* cmd/thv/app/rm.go and cmd/thv/app/logs.go.                              *)
(***************************************************************************)

\* container ids are hexadecimal texts; texts are sequences of characters
ContainerIDs == {<<"a", "b">>, <<"b", "a">>, <<"b", "b">>}

\* the toolhive-name label of a container, empty when it has none
LabelNames == {<<>>, <<"a">>, <<"a", "b">>}

\* the engine's own names of containers
EngineNames == {<<"a">>, <<"c">>}

\* the arguments of the commands
CliArgs == {<<"a">>, <<"a", "b">>, <<"b">>}

\* rt.ContainerInfo, with the labels the commands read
ContainerInfos ==
    [ID : ContainerIDs, Name : EngineNames, State : {"running", "exited"},
     Labels : [toolhive : BOOLEAN, name : LabelNames]]

\* the lists of at most n containers the engine can return: ids are unique
RECURSIVE Listings(_)
Listings(n) ==
    IF n = 0 THEN {<<>>}
    ELSE Listings(n - 1) \cup
         {Append(l, c) : l \in {k \in Listings(n - 1) : Len(k) = n - 1},
                         c \in ContainerInfos}

UniqueIDs(l) == \A i, j \in 1..Len(l) : l[i].ID = l[j].ID => i = j

\* the labels package: the container carries toolhive=true
IsToolHiveContainer(labels) == labels.toolhive

\* the labels package: the value of toolhive-name
GetContainerName(labels) == labels.name

\* strings.HasPrefix
HasPrefix(s, prefix) ==
    /\ Len(prefix) <= Len(s)
    /\ SubSeq(s, 1, Len(prefix)) = prefix

\* rm.go 65-69, logs.go 50-54: the label's name, the engine's name without one
nameOfListed(c) ==
    IF GetContainerName(c.Labels) = <<>> THEN c.Name ELSE GetContainerName(c.Labels)

\* the test of rm.go 72 and logs.go 57 on one container of the list
matchesArg(c, containerName) ==
    /\ IsToolHiveContainer(c.Labels)
    /\ (nameOfListed(c) = containerName \/ HasPrefix(c.ID, containerName))

\* the loop of rm.go 59-78 and logs.go 44-61 from position i: the index of
\* the first container that passes the test, 0 when none does
RECURSIVE findContainer(_, _, _)
findContainer(list, containerName, i) ==
    IF i > Len(list) THEN 0
    ELSE IF matchesArg(list[i], containerName) THEN i
    ELSE findContainer(list, containerName, i + 1)

NoResolved == [cmd |-> "", arg |-> <<>>, containers |-> <<>>, containerID |-> <<>>,
               err |-> ""]

InitCli ==
    /\ containers \in {l \in Listings(MaxListed) : UniqueIDs(l)}
    /\ resolved = NoResolved

ParkedCli ==
    /\ containers = <<>>
    /\ resolved = NoResolved

CliFrame == UNCHANGED <<lineVars, aclVars, stopVars, deployVars, srvVars, bridgeVars, postVars, rdVars, runVars>>

without(l, i) == SubSeq(l, 1, i - 1) \o SubSeq(l, i + 1, Len(l))

\* rmCmdFunc, rm.go 36-117: the container is removed unless it runs and
\* the force flag is not given
rmCmdFunc(containerName, rmForce) ==
    /\ \E i \in {findContainer(containers, containerName, 1)} :
          IF i = 0
          THEN /\ resolved' = [cmd |-> "rm", arg |-> containerName, containers |-> containers,
                               containerID |-> <<>>, err |-> "not found"]
               /\ containers' = containers
          ELSE IF containers[i].State = "running" /\ ~rmForce
          THEN /\ resolved' = [cmd |-> "rm", arg |-> containerName, containers |-> containers,
                               containerID |-> containers[i].ID, err |-> "is running"]
               /\ containers' = containers
          ELSE /\ resolved' = [cmd |-> "rm", arg |-> containerName, containers |-> containers,
                               containerID |-> containers[i].ID, err |-> "nil"]
               /\ containers' = without(containers, i)
    /\ CliFrame

\* the logs command, logs.go 22-75: the logs of the container are printed
logsCmdFunc(containerName) ==
    /\ \E i \in {findContainer(containers, containerName, 1)} :
          resolved' = [cmd |-> "logs", arg |-> containerName, containers |-> containers,
                       containerID |-> IF i = 0 THEN <<>> ELSE containers[i].ID,
                       err |-> IF i = 0 THEN "not found" ELSE "nil"]
    /\ containers' = containers
    /\ CliFrame

(*--------------------------- specifications ----------------------------*)

ParkedOthers == ParkedLine /\ ParkedACL /\ ParkedStop /\ ParkedDeploy /\ ParkedCli /\ ParkedReader /\ ParkedRun

Init == InitBridge /\ InitPost /\ InitServer /\ ParkedOthers

\* container output fanned out to SSE clients
Next ==
    \/ \E h \in Handlers : handleSSEConnection_Register(h)
    \/ \E h \in Handlers : processPendingMessages_Begin(h)
    \/ \E h \in Handlers : processPendingMessages_Send(h)
    \/ \E h \in Handlers : ClientDisconnect(h)
    \/ \E h \in Handlers : handleSSEConnection_Recv(h)
    \/ \E h \in Handlers : handleSSEConnection_Return(h)
    \/ \E h \in Handlers : handleSSEConnection_MonitorDelete(h)
    \/ \E h \in Handlers : handleSSEConnection_MonitorClose(h)
    \/ \E line \in SampleLines : parseAndForwardJSONRPC(line)
    \/ ForwardResponseToClients_Check
    \/ sendSSEEvent_Lock
    \/ \E h \in Handlers : sendSSEEvent_Send(h)
    \/ ForwardResponseToClients_Queue

vars == <<bridgeVars, postVars, otherVars>>

Spec == Init /\ [][Next]_vars

\* the bridge when the container has written nothing yet, or one message
\* that went to the pending list because no client was connected; the
\* lines are counted from here on
InitBacklog ==
    /\ \E k \in 0..1 :
           /\ pendingMessages = [i \in 1..k |-> i]
           /\ parsedCount = k
           /\ cur = k
           /\ responseCh = IF k = 0 THEN <<>> ELSE SendResponseMessage(<<>>, k)
    /\ sseClients = {}
    /\ clientsLock = "free"
    /\ pendLock = 0
    /\ MessageCh = [h \in Handlers |-> <<>>]
    /\ chClosed = [h \in Handlers |-> FALSE]
    /\ hPC = [h \in Handlers |-> "none"]
    /\ drainIdx = [h \in Handlers |-> 0]
    /\ rdPC = "idle"
    /\ todo = {}
    /\ linesRead = 0
    /\ crashed = FALSE
    /\ received = [h \in Handlers |-> <<>>]
    /\ regAfter = [h \in Handlers |-> 0]
    /\ drainSnap = [h \in Handlers |-> <<>>]
    /\ evictedAt = [h \in Handlers |-> 0]
    /\ regPend = [h \in Handlers |-> <<>>]
    /\ InitPost /\ InitServer /\ ParkedOthers

\* container output fanned out to SSE clients, after a backlog
SpecBacklog == InitBacklog /\ [][Next]_vars

\* the bridge with a call of HTTPSSEProxy.Stop
NextShutdown ==
    \/ Next
    \/ HTTPSSEProxy_Stop
    \/ Shutdown_Idle
    \/ Shutdown_CtxDone

SpecShutdown == Init /\ [][NextShutdown]_vars

\* client requests carried to the container's stdin
\* the SSE connection whose session the POST requests name; the session ids
\* of the other connections are requests for unknown sessions
PostClients == {h \in Handlers : \A g \in Handlers : h <= g}

NextPost ==
    \/ \E h \in PostClients : handleSSEConnection_Register(h)
    \/ \E h \in PostClients : processPendingMessages_Begin(h)
    \/ \E h \in PostClients : ClientDisconnect(h)
    \/ \E h \in PostClients : handleSSEConnection_MonitorDelete(h)
    \/ \E h \in PostClients : handleSSEConnection_MonitorClose(h)
    \/ \E method \in {"POST", "GET"}, sid \in SessionIds, body \in {"ok", "malformed", "readerr"} :
           handlePostRequest_Check(method, sid, body)
    \/ \E f \in inFlight : handlePostRequest_Send(f)
    \/ processMessages

SpecPost == Init /\ [][NextPost]_vars

\* requests routed through the middleware chain
InitRouted == InitBridge /\ InitPost /\ InitChain /\ ParkedOthers

NextChain ==
    \/ \E path \in Paths :
          /\ serverPC = "serving"
          /\ \E rejecting \in SUBSET MiddlewareNames : mux_ServeHTTP(path, rejecting)
    \/ \E h \in PostClients : serveSSE(h)
    \/ \E h \in PostClients : processPendingMessages_Begin(h)
    \/ \E sid \in SessionIds : serveMessages("POST", sid, "ok")
    \/ \E f \in inFlight : handlePostRequest_Send(f)
    \/ processMessages

SpecChain == InitRouted /\ [][NextChain]_vars

\* one SSE session from GET /sse to its end, with the fan-out and with
\* POST requests that name it
SessionProgress ==
    \/ \E h \in PostClients : processPendingMessages_Begin(h)
    \/ \E h \in PostClients : processPendingMessages_Send(h)
    \/ \E h \in PostClients : handleSSEConnection_Return(h)
    \/ \E h \in PostClients : handleSSEConnection_MonitorDelete(h)
    \/ \E h \in PostClients : handleSSEConnection_MonitorClose(h)
    \/ ForwardResponseToClients_Check
    \/ sendSSEEvent_Lock
    \/ \E h \in PostClients : sendSSEEvent_Send(h)
    \/ ForwardResponseToClients_Queue
    \/ \E f \in inFlight : handlePostRequest_Send(f)

NextSession ==
    \/ \E h \in PostClients : handleSSEConnection_Register(h)
    \/ \E h \in PostClients : ClientDisconnect(h)
    \/ \E h \in PostClients : handleSSEConnection_Recv(h)
    \/ \E line \in {<<"{", "a", "}">>} : parseAndForwardJSONRPC(line)
    \/ \E h \in PostClients : handlePostRequest_Check("POST", clientID(h), "ok")
    \/ \E h \in PostClients : PostToEndedProcess(clientID(h))
    \/ SessionProgress

\* a goroutine that can take a step takes one
SpecSession == Init /\ [][NextSession]_vars /\ WF_vars(SessionProgress)

\* one stdout line through the dirty-byte recovery
InitSanitize ==
    InitLine /\ InitBridge /\ InitPost /\ InitServer /\ ParkedCli /\ ParkedReader /\ ParkedRun /\ ParkedACL /\ ParkedStop /\ ParkedDeploy

NextSanitize == parseAndForwardJSONRPC_Line

SpecSanitize == InitSanitize /\ [][NextSanitize]_vars

\* one call of createTempSquidConf
InitSquid ==
    InitACL /\ InitBridge /\ InitPost /\ InitServer /\ ParkedCli /\ ParkedReader /\ ParkedRun /\ ParkedLine /\ ParkedStop /\ ParkedDeploy

NextACL == createTempSquidConf

SpecACL == InitSquid /\ [][NextACL]_vars

\* one Monitor and the calls on it
InitWatch ==
    InitMonitor /\ ParkedTasks /\ InitBridge /\ InitPost /\ InitServer /\ ParkedCli /\ ParkedReader /\ ParkedLine /\ ParkedACL /\ ParkedStop /\ ParkedDeploy

NextMonitor ==
    \/ \E r \in inspect(m_up) : StartMonitoring(r)
    \/ StopMonitoring_Close
    \/ StopMonitoring_Wait
    \/ monitor_StopCh
    \/ \E r \in inspect(m_up) : monitor_TickerC(r)
    \/ Monitor_ContainerExits
    \/ Monitor_Receive

SpecMonitor == InitWatch /\ [][NextMonitor]_vars

\* one transport, its goroutines and its owner
InitOwned ==
    InitTasks /\ ParkedMonitor /\ InitBridge /\ InitPost /\ InitServer /\ ParkedCli /\ ParkedReader /\ ParkedLine /\ ParkedACL /\ ParkedStop /\ ParkedDeploy

\* the steps of the goroutines of the transport and of a Stop under way
TaskSteps ==
    \/ processMessages_Begin
    \/ processMessages_Done
    \/ waiter_Select
    \/ processStdout_Select
    \/ processStdout_EOF
    \/ poller_StopCh
    \/ \E r \in inspect(t_up) : poller_Exit(r)
    \/ \E stopFails \in BOOLEAN : Stop_Finish(stopFails)
    \/ handleContainerExit_Done
    \/ handleContainerExit_Event
    \/ \E stopFails \in BOOLEAN : handleContainerExit_Stopped(stopFails)

NextTasks ==
    \/ \E f \in StartFaults, r \in inspect(t_up) : Start(f, r)
    \/ TaskSteps
    \/ processStdout_Data
    \/ Stop_Begin
    \/ Tasks_Cancel
    \/ Tasks_ContainerExits

SpecTasks == InitOwned /\ [][NextTasks]_vars

\* every goroutine that can take a step takes it
TasksFairness ==
    /\ WF_vars(processMessages_Begin)
    /\ WF_vars(processMessages_Done)
    /\ WF_vars(waiter_Select)
    /\ WF_vars(processStdout_Select)
    /\ WF_vars(processStdout_EOF)
    /\ WF_vars(poller_StopCh)
    /\ WF_vars(\E r \in inspect(t_up) : poller_Exit(r))
    /\ WF_vars(\E stopFails \in BOOLEAN : Stop_Finish(stopFails))
    /\ WF_vars(handleContainerExit_Done)
    /\ WF_vars(handleContainerExit_Event)
    /\ WF_vars(\E stopFails \in BOOLEAN : handleContainerExit_Stopped(stopFails))

SpecTasksLive == SpecTasks /\ TasksFairness

\* concurrent Stop calls on one transport
InitTeardown ==
    InitStop /\ InitBridge /\ InitPost /\ InitServer /\ ParkedCli /\ ParkedReader /\ ParkedRun /\ ParkedLine /\ ParkedACL /\ ParkedDeploy

\* the steps inside Stop and of the goroutines it waits for
StopProgress ==
    \/ \E c \in StopCallers : Stop_FirstCheck(c)
    \/ \E c \in StopCallers : Stop_Lock(c)
    \/ \E c \in StopCallers : Stop_SecondCheck(c)
    \/ \E c \in StopCallers : Stop_Monitor(c)
    \/ \E c \in StopCallers : Stop_MonitorWait(c)
    \/ \E c \in StopCallers : Stop_Proxy(c)
    \/ \E c \in StopCallers : Stop_Stdin(c)
    \/ \E c \in StopCallers : Stop_IsRunning(c)
    \/ \E c \in StopCallers : Stop_StopContainer(c)
    \/ monitor_Stopped

\* the teardown without the monitor's ticks
StopSteps ==
    \/ ContainerExits
    \/ handleContainerExit_CtxDone
    \/ handleContainerExit_Receive
    \/ handleContainerExit_Check
    \/ \E c \in StopCallers : Stop_Call(c)
    \/ StopProgress

NextStop ==
    \/ StopSteps
    \/ \E r \in IsContainerRunning_Monitor : monitor_Tick(r)

SpecStop == InitTeardown /\ [][NextStop]_vars

\* the steps of the exit handler, of Stop and of the goroutines Stop waits for
ExitProgress ==
    \/ handleContainerExit_Receive
    \/ handleContainerExit_Check
    \/ StopProgress

\* the exit of the container with external Stop calls, under a context of
\* Start that is not cancelled
NextExit ==
    \/ ContainerExits
    \/ \E r \in IsContainerRunning_Monitor : monitor_Tick(r)
    \/ \E c \in StopCallers : Stop_Call(c)
    \/ ExitProgress

\* every goroutine that can take a step takes one
SpecExit == InitTeardown /\ [][NextExit]_vars /\ WF_vars(ExitProgress)

\* Start, Stop and IsRunning on one transport
NextLifecycle ==
    \/ StopSteps
    \/ monitor_Exit
    \/ \E attached \in BOOLEAN : Start_Call(attached)
    \/ IsRunning_Call
    \/ ContainerStarted

SpecLifecycle == InitTeardown /\ [][NextLifecycle]_vars

\* a workload is created, started, and killed or stopped
InitCrash ==
    InitDeploy /\ ParkedStop /\ InitBridge /\ InitPost /\ InitServer /\ ParkedCli /\ ParkedReader /\ ParkedRun /\ ParkedLine /\ ParkedACL

\* the steps of the transport's goroutines once the workload runs
CrashProgress ==
    \/ \E r \in IsContainerRunning_Monitor : monitor_Tick(r)
    \/ monitor_Stopped
    \/ handleContainerExit_Receive
    \/ handleContainerExit_Check
    \/ \E c \in StopCallers : Stop_FirstCheck(c)
    \/ \E c \in StopCallers : Stop_Lock(c)
    \/ \E c \in StopCallers : Stop_SecondCheck(c)
    \/ \E c \in StopCallers : Stop_Monitor(c)
    \/ \E c \in StopCallers : Stop_MonitorWait(c)
    \/ \E c \in StopCallers : Stop_Proxy(c)
    \/ \E c \in StopCallers : Stop_Stdin(c)
    \/ \E c \in StopCallers : Stop_IsRunning(c)
    \/ \E c \in StopCallers : Stop_StopWorkload(c)

NextCrash ==
    \/ Setup_Deploy
    \/ Start_Call(TRUE)
    \/ ContainerKilled
    \/ \E c \in StopCallers : Stop_Call(c)
    \/ CrashProgress

\* every goroutine of the transport that can take a step takes one
SpecCrash == InitCrash /\ [][NextCrash]_vars /\ WF_vars(CrashProgress)

\* calls of DeployWorkload and RemoveWorkload that overlap
NextRace ==
    \/ \E w \in Workloads :
          /\ deployCount < MaxDeploys
          /\ \E spec \in SpecSet(w) : CallDeployWorkload(w, spec, "none")
    \/ \E w \in Workloads : RemoveWorkload_Begin(w)
    \/ \E w \in Workloads : RemoveWorkload_End(w)
    \/ \E w \in Workloads : DeployWorkload_Create(w)
    \/ \E w \in Workloads : DeployWorkload_Start(w)

InitRace ==
    InitDeploy /\ InitBridge /\ InitPost /\ InitServer /\ ParkedCli /\ ParkedReader /\ ParkedRun /\ ParkedLine /\ ParkedACL /\ ParkedStop

SpecRace == InitRace /\ [][NextRace]_vars

\* the reconciler against the engine
InitReconcile ==
    InitDeploy /\ InitBridge /\ InitPost /\ InitServer /\ ParkedCli /\ ParkedReader /\ ParkedRun /\ ParkedLine /\ ParkedACL /\ ParkedStop

NextDeploy ==
    \/ \E w \in Workloads :
          /\ deployCount < MaxDeploys
          /\ \E spec \in SpecSet(w), fault \in Faults : CallDeployWorkload(w, spec, fault)
    \/ \E w \in Workloads : CallStopWorkload(w)
    \/ \E w \in Workloads : CallRemoveWorkload(w)

SpecDeploy == InitReconcile /\ [][NextDeploy]_vars

\* the calls on networks, among deployments and removals
NextNetwork ==
    \/ \E w \in Workloads : CallDeployWorkload(w, BaseSpec(w), "none")
    \/ \E w \in Workloads : CallRemoveWorkload(w)
    \/ \E name \in NetworkNames : CallCreateNetwork(name)
    \/ \E name \in NetworkNames : CallDeleteNetwork(name)

SpecNetwork == InitReconcile /\ [][NextNetwork]_vars

InitStdout ==
    InitReader /\ ParkedRun /\ InitBridge /\ InitPost /\ InitServer /\ ParkedCli /\ ParkedLine /\ ParkedACL
               /\ ParkedStop /\ ParkedDeploy

\* the reads of the container's stdout, split in every way
NextStdout == \E n \in 1..MaxChunk : processStdout_Read(n)

SpecStdout == InitStdout /\ [][NextStdout]_vars

InitResolve ==
    InitCli /\ ParkedReader /\ ParkedRun /\ InitBridge /\ InitPost /\ InitServer /\ ParkedLine /\ ParkedACL /\ ParkedStop
            /\ ParkedDeploy

\* the external commands on what the engine lists
NextResolve ==
    \/ \E containerName \in CliArgs, rmForce \in BOOLEAN : rmCmdFunc(containerName, rmForce)
    \/ \E containerName \in CliArgs : logsCmdFunc(containerName)

SpecResolve == InitResolve /\ [][NextResolve]_vars


(***************************************************************************)
(* Properties of the bridge                                                *)
(***************************************************************************)

\* everything placed in the queue of h so far, in the order of the queue
Stream(h) == received[h] \o MessageCh[h]

Nums(q) == [i \in 1..Len(q) |-> q[i].n]

IsPend(e) == e.via = "pend"

AfterRegistration(h, q) == SelectSeq(q, LAMBDA e : e.n > regAfter[h])

\* the last message the fan-out has offered to h
LastOffered(h) ==
    IF rdPC = "idle" THEN parsedCount
    ELSE IF rdPC = "fanning" /\ h \notin todo THEN cur
    ELSE cur - 1

Drained(h) == hPC[h] \in {"stream", "cancelled", "closing", "done"}

\* C2, as stated: the messages buffered while no client was connected are
\* delivered, in their order, to the client that drains them, and none of
\* them is delivered to another client.
C2_PendingOnceInOrder ==
    /\ \A h \in Handlers :
           Drained(h) => Nums(SelectSeq(Stream(h), IsPend)) = drainSnap[h]
    /\ \A g, h \in Handlers :
           g # h => Range(Nums(SelectSeq(Stream(g), IsPend)))
                        \cap Range(Nums(SelectSeq(Stream(h), IsPend))) = {}

\* C4, as stated: a POST whose session id is not a registered client is
\* answered 404, and nothing of it is enqueued or written to stdin.
C4_UnregisteredIs404 ==
    /\ (lastPost.method = "POST" /\ ~lastPost.registered) => lastPost.status = 404
    /\ notFound \cap (Range(messageCh) \cup Range(stdinLog)) = {}

\* C4, amended: a POST whose session id is not empty and is not a registered
\* client is answered 404; a POST with an empty session id is answered 400;
\* in both cases nothing of it is enqueued or written to stdin.
C4_UnknownSession ==
    /\ (lastPost.method = "POST" /\ ~lastPost.registered /\ lastPost.sid # EmptySession)
           => lastPost.status = 404
    /\ (lastPost.method = "POST" /\ lastPost.sid = EmptySession) => lastPost.status = 400
    /\ notFound \cap (Range(messageCh) \cup Range(stdinLog) \cup {f.r : f \in inFlight}) = {}

\* a POST for the session of a client that has left was answered 404 while
\* another request was on its way to stdin
C4_Witness ==
    /\ lastPost.status = 404
    /\ lastPost.sid[1] = "uuid"
    /\ messageCh # <<>>

\* the message n has been placed in the queue of h by the fan-out
Offered(h, n) == [n |-> n, via |-> "live"] \in Range(Stream(h))

\* C12: a client whose queue the fan-out found full is out of the client
\* set, its queue is closed and the message of that fan-out is never placed
\* in it; in the fan-out every client already visited and still in the set
\* holds the message, and the visit of a client with room enqueues the
\* message whether or not another client was evicted before.
C12_EvictionIsLocal ==
    /\ [](\A h \in Handlers :
              evictedAt[h] # 0
              => /\ h \notin sseClients
                 /\ chClosed[h]
                 /\ \A e \in Range(Stream(h)) : e.n # evictedAt[h])
    /\ [](rdPC = "fanning" => \A g \in sseClients \ todo : Offered(g, cur))
    /\ [][\A h \in Handlers :
              sendSSEEvent_Send(h)
              => IF Len(MessageCh[h]) = QueueCap
                 THEN evictedAt'[h] = cur /\ MessageCh' = MessageCh
                 ELSE /\ MessageCh'[h] = Append(MessageCh[h], [n |-> cur, via |-> "live"])
                      /\ h \in sseClients'
                      /\ evictedAt' = evictedAt]_vars

\* one client was evicted by the fan-out of a message and another client,
\* visited in the same fan-out, holds that message
C12_Witness ==
    \E h, g \in Handlers :
        /\ evictedAt[h] = cur
        /\ cur # 0
        /\ g \in sseClients
        /\ Offered(g, cur)

\* the positions of the stream of h that hold a message of the fan-out
LivePositions(h) == {i \in 1..Len(Stream(h)) : Stream(h)[i].via = "live"}

\* C13, as stated: for a client that registered while the pending list was
\* not empty, every message of that list is in its queue before any message
\* of the fan-out, and no replayed message follows a message of the fan-out.
C13_PendingBeforeLive ==
    \A h \in Handlers :
        regPend[h] # <<>>
        => \A i \in LivePositions(h) :
               /\ Range(regPend[h]) \subseteq {Stream(h)[j].n : j \in 1..(i - 1)}
               /\ \A j \in (i + 1)..Len(Stream(h)) : Stream(h)[j].via # "pend"

\* C11: a POST with a valid session and a well-formed body that finds the
\* inbound channel full is answered 500 at once and leaves the channel as
\* it was; one that finds room is answered 202 and appended; the send is
\* never blocked.
C11_Backpressure ==
    /\ []((inFlight # {} /\ ~crashed)
            => ENABLED (\E f \in inFlight : handlePostRequest_Send(f)))
    /\ [][\A f \in inFlight :
              handlePostRequest_Send(f)
              => IF Len(messageCh) = MsgChCap
                 THEN lastPost'.status = 500 /\ messageCh' = messageCh
                 ELSE lastPost'.status = 202 /\ messageCh' = Append(messageCh, f.r)]_vars

\* a POST was refused on a full channel, the dispatcher drained a slot and a
\* later POST was accepted
C11_Witness ==
    /\ lastPost.status = 202
    /\ \E r \in refused : r < lastPost.r
    /\ stdinLog # <<>>
    /\ lastPost.r \in Range(messageCh)

(***************************************************************************)
(* Properties of Stop                                                      *)
(***************************************************************************)

InStop(c) == stPC[c] \notin {"idle", "returned"}

\* C3: under any interleaving of Stop calls, external and from the exit
\* handler, no call panics or blocks for ever, each teardown step is
\* executed at most once, and a call that observed the closed sentinel
\* executed no teardown step.
C3_StopOnce ==
    /\ ~stopPanicked
    /\ \A s \in TeardownSteps : teardown[s] <= 1
    /\ \A c \in StopCallers : sawClosed[c] # "no" => did[c] = {}
    /\ (\E c \in StopCallers : InStop(c)) => ENABLED StopProgress

\* the exit handler and an external caller both passed the first check; one
\* executed the whole teardown and the other returned at the second check
C3_Witness ==
    /\ \A c \in StopCallers : stPC[c] = "returned"
    /\ \E c \in StopCallers : sawClosed[c] = "second"
    /\ did[ExitHandler] = TeardownSteps \ {"container"}
    /\ \A s \in TeardownSteps \ {"container"} : teardown[s] = 1

(***************************************************************************)
(* Properties of the dirty-byte recovery                                   *)
(***************************************************************************)

\* the ways to read the line as garbage, object, garbage
Splits == {ij \in (1..Len(stdoutLine)) \X (1..Len(stdoutLine)) :
              ij[1] <= ij[2] /\ ValidJSON(SubSeq(stdoutLine, ij[1], ij[2]))}

Lead(ij) == SubSeq(stdoutLine, 1, ij[1] - 1)

Object(ij) == SubSeq(stdoutLine, ij[1], ij[2])

Trail(ij) == SubSeq(stdoutLine, ij[2] + 1, Len(stdoutLine))

Dirty(s) == \E i \in 1..Len(s) : ~IsPrint(s[i])

AllSpaces(s) == \A i \in 1..Len(s) : s[i] = " "

LineEnds(doc) == {i \in 1..Len(doc) : doc[i] = "\n"}

\* the line of a document that ends at position i
LineAt(doc, i) ==
    LET before == {j \in LineEnds(doc) : j < i}
        start  == IF before = {} THEN 1
                  ELSE 1 + CHOOSE j \in before : \A k \in before : k <= j
    IN  SubSeq(doc, start, i - 1)

RestrictedToOneHost ==
    /\ ~aclIn.networkPermissions.isNil
    /\ ~aclIn.networkPermissions.Outbound.isNil
    /\ ~aclIn.networkPermissions.Outbound.InsecureAllowAll
    /\ Len(aclIn.networkPermissions.Outbound.AllowHost) = 1

\* C10: with insecure_allow_all false and allow_host = [H] the document has
\* exactly one line "acl allowed_dsts dstdomain H" and its last line is
\* "http_access deny all".
C10_OneHostLine ==
    (aclPC # "call" /\ RestrictedToOneHost) =>
        /\ aclPC = "done"
        /\ LET H == aclIn.networkPermissions.Outbound.AllowHost[1]
           IN  Cardinality({i \in LineEnds(squidConf) :
                               LineAt(squidConf, i)
                                   = <<"acl allowed_dsts dstdomain", " ", H>>}) = 1
        /\ squidConf[Len(squidConf)] = "\n"
        /\ LineAt(squidConf, Len(squidConf)) = <<"http_access deny all">>

\* a document was written for one allowed host, with ports, methods and an
\* ingress port besides
C10_Witness ==
    /\ aclPC = "done"
    /\ RestrictedToOneHost
    /\ aclIn.networkPermissions.Outbound.AllowPort # <<>>
    /\ aclIn.networkPermissions.Outbound.AllowTransport # <<>>
    /\ aclIn.ingressPorts # {}

(*----------------------- properties of SpecDeploy ----------------------*)

\* the configuration DeployWorkload asks for the main container of w
DesiredConfig(w, spec) ==
    mainConfig(w, spec, spec.options.isNil \/ spec.options.AttachStdio)

\* the existing main container equals the spec in every compared class
SameAsSpec(existing, w, spec) ==
    /\ existing.config = DesiredConfig(w, spec)
    /\ [existing.hostConfig EXCEPT !.DNS = 0] = mainHostConfig(spec, 0)

\* the last call was a DeployWorkload that the engine and the registry let
\* through, for a workload whose main container existed
Redeploy ==
    /\ lastCall.api = "deploy"
    /\ lastCall.fault = "none"
    /\ lastCall.spec.transportType \in {"sse", "stdio", "inspector"}
    /\ lastCall.pre.main.exists

\* the calls the last API call issued on a container
OpsOn(op, n) == {i \in DOMAIN engine.ops : engine.ops[i].op = op /\ engine.ops[i].name = n}

\* C5: a DeployWorkload whose spec is identical to that of the deployed
\* and running workload returns the id of the existing main container and
\* issues no stop, remove, create or start on the main, the egress or the
\* dns container of the workload.
C5_IdenticalRedeployNoOp ==
    (Redeploy /\ lastCall.pre.allRunning
     /\ SameAsSpec(lastCall.pre.main, lastCall.name, lastCall.spec))
    => /\ lastCall.err = "nil"
       /\ lastCall.id = lastCall.pre.main.id
       /\ \A r \in Roles : \A op \in {"stop", "remove", "create", "start"} :
              OpsOn(op, <<lastCall.name, r>>) = {}

\* C6: a DeployWorkload whose spec differs from the existing main
\* container in a compared class stops, removes and creates the main
\* container exactly once and returns the id of the new container, whose
\* configuration equals the new spec.
C6_ChangedSpecReplacedOnce ==
    (Redeploy /\ ~SameAsSpec(lastCall.pre.main, lastCall.name, lastCall.spec))
    => LET main == <<lastCall.name, "main">>
       IN  /\ lastCall.err = "nil"
           /\ \A op \in {"stop", "remove", "create"} : Cardinality(OpsOn(op, main)) = 1
           /\ engine.containers[main].exists
           /\ lastCall.id = engine.containers[main].id
           /\ lastCall.id # lastCall.pre.main.id
           /\ SameAsSpec(engine.containers[main], lastCall.name, lastCall.spec)

\* the workload w is whole: main, egress and dns exist, the internal
\* network exists and the listing has w once
WorkloadWhole(w) ==
    /\ \A r \in Roles : engine.containers[<<w, r>>].exists
    /\ internalNetworkName(<<w, "main">>) \in engine.networks
    /\ Cardinality({n \in ListWorkloads(engine) : nameText(n) = w}) = 1

PositionIn(q, m) == IF m \in Range(q) THEN CHOOSE i \in 1..Len(q) : q[i] = m ELSE 0

C15_EnqueuedIffAccepted ==
    /\ [](lastPost.r # 0 => (lastPost.status = 202 <=> lastPost.r \in Range(accepted)))
    /\ []((lastPost.method = "POST" /\ lastPost.sid # EmptySession /\ ~lastPost.registered)
              => lastPost.status = 404)
    /\ [][\A method \in {"POST", "GET"}, sid \in SessionIds,
              body \in {"ok", "malformed", "readerr"} :
              handlePostRequest_Check(method, sid, body)
              => /\ <<messageCh, sseClients, pendingMessages>>'
                        = <<messageCh, sseClients, pendingMessages>>
                 /\ lastPost' # lastPost => lastPost'.status \in {405, 400, 404, 500}]_vars
    /\ [][\A f \in inFlight :
              handlePostRequest_Send(f)
              => /\ <<sseClients, pendingMessages>>' = <<sseClients, pendingMessages>>
                 /\ lastPost'.status \in {202, 500}
                 /\ IF lastPost'.status = 202
                    THEN messageCh' = Append(messageCh, f.r)
                    ELSE messageCh' = messageCh]_vars

\* a request with a malformed body for a session that is not registered was
\* answered 404, after another request had been accepted
C15_Witness ==
    /\ lastPost.status = 404
    /\ lastPost.body = "malformed"
    /\ lastPost.sid[1] = "uuid"
    /\ accepted # <<>>

(***************************************************************************)
(* Properties of the lifecycle                                             *)
(***************************************************************************)

\* C16: once IsRunning has returned false it never returns true, whatever
\* calls of Start and Stop and whatever events of the container follow;
\* and the sentinel, once closed, stays closed.
C16_StoppedForGood ==
    /\ [](\A i, j \in 1..Len(history) :
              (i < j /\ history[i] = "false") => history[j] # "true")
    /\ [][shutdownCh => shutdownCh']_vars

\* IsRunning returned false, Start was then called and returned nil, and
\* IsRunning was called again
C16_Witness ==
    \E i, j, k \in 1..Len(history) :
        /\ i < j /\ j < k
        /\ history[i] = "false"
        /\ history[j] = "start"
        /\ history[k] \in {"true", "false"}

(***************************************************************************)
(* Properties of the workload under its transport                          *)
(***************************************************************************)

\* no container of the workload runs and ListWorkloads does not show it
TornDown(w) ==
    /\ \A n \in ContainersOf(w) : ~engine.containers[n].running
    /\ MainOf(w) \notin ListWorkloads(engine)

\* C17, as stated: when the main container of the running workload has been
\* killed from outside, eventually none of its main, egress and dns
\* containers runs and the list does not show the workload.
C17_CrashTornDown ==
    ("killed" \in Range(history)) ~> TornDown(Supervised)

(***************************************************************************)
(* Properties of the reconciler: failures and shared state                 *)
(***************************************************************************)

\* what a call added to the engine: networks and containers that were not
\* there, under their ids, when the call began
CreatedNetworks == engine'.networks \ engine.networks

CreatedContainers ==
    {n \in ContainerNames :
        /\ engine'.containers[n].exists
        /\ ~(engine.containers[n].exists /\ engine.containers[n].id = engine'.containers[n].id)}

\* C18, as stated: a call of DeployWorkload that returns an error leaves no
\* network and no container that it created.
C18_FailedDeployLeavesNothing ==
    [][\A w \in Workloads : \A spec \in SpecSet(w) : \A fault \in Faults :
          (CallDeployWorkload(w, spec, fault) /\ lastCall'.err # "nil")
          => (CreatedNetworks = {} /\ CreatedContainers = {})]_vars

\* the containers that the engine holds with the external network among
\* their networks
OnExternal(E) ==
    {n \in ContainerNames : E.containers[n].exists /\ ExternalNetwork \in E.containers[n].endpoints}

\* C19, as stated: the external network is never deleted while a container
\* of another workload is attached to it.
C19_ExternalKeptWhileUsed ==
    [][(ExternalNetwork \in engine.networks /\ ExternalNetwork \notin engine'.networks)
          => OnExternal(engine') = {}]_vars

\* the address of the dns container of w on the internal network; the
\* engine gives a container it creates a new address, as it gives it a new
\* id, so the id stands for the address (lines 459-468)
dnsContainerIP(E, w) == E.containers[<<w, "dns">>].id

\* C20, as stated: after every successful DeployWorkload for an MCP
\* workload, a redeploy that recreates the dns container included, the DNS
\* server configured on the main container is the current address of the
\* dns container of the workload.
C20_MainDnsIsCurrentDns ==
    (/\ lastCall.api = "deploy"
     /\ lastCall.err = "nil"
     /\ isMcpWorkload(lastCall.name))
    => /\ engine.containers[<<lastCall.name, "main">>].exists
       /\ engine.containers[<<lastCall.name, "dns">>].exists
       /\ engine.containers[<<lastCall.name, "main">>].hostConfig.DNS
              = dnsContainerIP(engine, lastCall.name)

(***************************************************************************)
(* Properties of the ACL document: allow-all                               *)
(***************************************************************************)

\* the profile asks for all traffic: insecure_allow_all is set, or there is
\* no outbound section, with or without a network section
AsksAllowAll(networkPermissions) ==
    \/ networkPermissions.isNil
    \/ networkPermissions.Outbound.isNil
    \/ networkPermissions.Outbound.InsecureAllowAll

\* the line ends of the lines of a document that are equal to line
LinesEqual(doc, line) == {i \in LineEnds(doc) : LineAt(doc, i) = line}

\* C21, as stated: with insecure_allow_all true, or with no outbound
\* section, the generation succeeds and the document has the line
\* "http_access allow all" before its last line "http_access deny all".
C21_AllowAllWritten ==
    (aclPC # "call" /\ AsksAllowAll(aclIn.networkPermissions)) =>
        /\ aclPC = "done"
        /\ LineAt(squidConf, Len(squidConf)) = <<"http_access deny all">>
        /\ \E i \in LinesEqual(squidConf, <<"http_access allow all">>) : i < Len(squidConf)

\* the profiles that differ from networkPermissions at most in allow_host,
\* allow_port and allow_transport
SameButLists(networkPermissions) ==
    {np \in NetworkPermissionsValues :
        /\ np.isNil = networkPermissions.isNil
        /\ np.Outbound.isNil = networkPermissions.Outbound.isNil
        /\ np.Outbound.InsecureAllowAll = networkPermissions.Outbound.InsecureAllowAll}

InsecureAllowAll(networkPermissions) ==
    /\ ~networkPermissions.isNil
    /\ ~networkPermissions.Outbound.isNil
    /\ networkPermissions.Outbound.InsecureAllowAll

\* C22: with insecure_allow_all true the document written is the document
\* of every profile that differs only in allow_transport, allow_host and
\* allow_port, for the same hostname and the same ingress ports taken in
\* the same order; no entry of the three lists is in the document.
C22_ListsIgnored ==
    (aclPC # "call" /\ InsecureAllowAll(aclIn.networkPermissions)) =>
        /\ aclPC = "done"
        /\ \A np \in SameButLists(aclIn.networkPermissions) :
               \E ports \in Orders(aclIn.ingressPorts) :
                   /\ squidConf = squidConfText(np, aclIn.serverHostname, ports)
                   /\ squidConf = squidConfText(aclIn.networkPermissions,
                                                aclIn.serverHostname, ports)
        /\ \A i \in 1..Len(squidConf) :
               squidConf[i] \notin Hosts \cup {"443", "TCP", "UDP", " CONNECT GET POST HEAD"}

\* a document was written for insecure_allow_all with all three lists set
C22_Witness ==
    /\ aclPC = "done"
    /\ InsecureAllowAll(aclIn.networkPermissions)
    /\ Len(aclIn.networkPermissions.Outbound.AllowHost) = MaxHosts
    /\ aclIn.networkPermissions.Outbound.AllowPort # <<>>
    /\ aclIn.networkPermissions.Outbound.AllowTransport # <<>>
    /\ aclIn.ingressPorts # {}

(***************************************************************************)
(* Properties of HTTPSSEProxy.Stop                                         *)
(***************************************************************************)

\* the GET /sse requests that registered a client
Registered == {h \in Handlers : hPC[h] # "none"}

\* C23, as stated: once HTTPSSEProxy.Stop has returned no connection is
\* accepted, the queue of every client that was registered is closed, its
\* handler has ended and the client set is empty.
C23_StopClosesClients ==
    (serverPC \in {"stopped", "deadline"} /\ ~crashed) =>
        /\ \A h \in Handlers : ~ENABLED handleSSEConnection_Register(h)
        /\ \A h \in Registered : chClosed[h] /\ h \notin ActiveHandlers
        /\ sseClients = {}

(***************************************************************************)
(* Properties of the middleware chain                                      *)
(***************************************************************************)

\* the position of the first middleware of the chain that refuses the
\* request, or 0
FirstRejecting(mws, rejecting) ==
    IF \E i \in 1..Len(mws) : mws[i] \in rejecting
    THEN CHOOSE i \in 1..Len(mws) :
             mws[i] \in rejecting /\ \A j \in 1..(i - 1) : mws[j] \notin rejecting
    ELSE 0

\* what the claim says of the request routed last
RoutedInOrder ==
    LET k == FirstRejecting(middlewares, lastReq.rejecting)
    IN  /\ lastReq.path = "/health" =>
               lastReq.trace = <<BridgeHandler("/health")>> /\ lastReq.status = 200
        /\ (lastReq.path \in {"/sse", "/messages"} /\ k = 0) =>
               lastReq.trace = middlewares \o <<BridgeHandler(lastReq.path)>>
        /\ (lastReq.path \in {"/sse", "/messages"} /\ k > 0) =>
               lastReq.trace = SubSeq(middlewares, 1, k) /\ lastReq.status = 401

\* C24: a request to /sse or /messages runs m1, then m2, ..., then mn, then
\* the bridge handler; when a middleware refuses it no later middleware and
\* no bridge handler runs, no client is registered and nothing is enqueued;
\* /health is answered 200 and runs no middleware.
C24_ChainOuterFirst ==
    /\ [](lastReq.n > 0 => RoutedInOrder)
    /\ [](Cardinality(Started) <= admitted["/sse"] /\ postCount <= admitted["/messages"])
    /\ [][(lastReq'.n # lastReq.n /\ lastReq'.status = 401)
            => UNCHANGED <<sseClients, hPC, MessageCh, inFlight, messageCh, postCount>>]_vars

\* with two different middlewares a request to /sse was refused by the
\* second one after a request to /messages had passed both and its message
\* had been enqueued
C24_Witness ==
    /\ Len(middlewares) = 2 /\ middlewares[1] # middlewares[2]
    /\ lastReq.path = "/sse" /\ lastReq.status = 401
    /\ lastReq.trace = middlewares
    /\ admitted["/messages"] > 0 /\ accepted # <<>>

(***************************************************************************)
(* Properties of the SSE session                                           *)
(***************************************************************************)

\* C25, as stated: a POST is let past the session check exactly when the
\* client of its session id is registered, and is answered 404 when it is
\* not; a client evicted for queue overflow is out of the set, a client
\* whose connection has ended eventually leaves the set, and a client that
\* has left the set never enters it again.
C25_SessionWhileRegistered ==
    /\ []((lastPost.method = "POST" /\ lastPost.sid # EmptySession)
             => (lastPost.status = 404 <=> ~lastPost.registered))
    /\ [](\A f \in inFlight : f.registered)
    /\ [](\A h \in Handlers : evictedAt[h] # 0 => h \notin sseClients)
    /\ [][\A h \in Handlers : (hPC[h] # "none" /\ h \notin sseClients) => h \notin sseClients']_vars
    /\ \A h \in Handlers : (hPC[h] = "cancelled") ~> (h \notin sseClients \/ crashed)

\* C26: on every SSE stream the first event written is the endpoint event
\* with the session id of the client, and every event after it is a message
\* event: no message, replayed from the pending list or live, is written
\* before the endpoint event.
C26_EndpointFirst ==
    \A h \in Handlers :
        /\ written[h] # <<>> =>
               written[h][1] = [event |-> "endpoint", data |-> clientID(h)]
        /\ \A i \in 2..Len(written[h]) : written[h][i].event = "message"
        /\ Len(written[h]) = (IF written[h] = <<>> THEN 0 ELSE 1) + Len(received[h])

\* a stream holds the endpoint event, then a message replayed from the
\* pending list, then a live message
C26_Witness ==
    \E h \in Handlers :
        /\ Len(written[h]) = 3
        /\ received[h][1].via = "pend"
        /\ received[h][2].via = "live"

(***************************************************************************)
(* Properties of the calls on networks                                     *)
(***************************************************************************)

\* C27, as stated: createNetwork on a name that exists returns nil and
\* creates nothing; deleteNetwork on a name that does not exist returns nil
\* and changes nothing.
C27_NetworkIdempotent ==
    [][\A name \in NetworkNames :
          /\ (CallCreateNetwork(name) /\ name \in engine.networks)
                 => /\ lastCall'.err = "nil"
                    /\ engine'.networks = engine.networks
                    /\ engine'.ops = <<>>
          /\ (CallDeleteNetwork(name) /\ name \notin engine.networks)
                 => /\ lastCall'.err = "nil"
                    /\ engine'.networks = engine.networks]_vars

(***************************************************************************)
(* Properties of the external commands                                     *)
(***************************************************************************)

\* the positions of list l whose toolhive container has exactly this name
ExactlyNamed(l, containerName) ==
    {k \in 1..Len(l) : IsToolHiveContainer(l[k].Labels) /\ nameOfListed(l[k]) = containerName}

\* C28: when rm or logs resolves its argument and the list holds a toolhive
\* container whose name equals the argument, the container chosen is one
\* with that name, wherever it stands in the list
C28_ExactNameWins ==
    (resolved.cmd # "" /\ ExactlyNamed(resolved.containers, resolved.arg) # {})
        => \E k \in ExactlyNamed(resolved.containers, resolved.arg) :
               resolved.containers[k].ID = resolved.containerID


(***************************************************************************)
(* Properties of the monitor                                               *)
(***************************************************************************)

\* C29: a Monitor puts at most one event on its error channel; a tick that
\* observes the container not running, or whose inspect reports not found,
\* sends that event and ends the goroutine; a tick whose inspect fails with
\* another error, like a tick that finds the container running, sends
\* nothing and the monitoring goes on
C29_OneExitEvent ==
    /\ [](eventsSent <= 1)
    /\ [][\A r \in IsContainerRunning_Monitor :
             monitor_Tick(r) =>
                 IF (r.err = "nil" /\ ~r.running) \/ r.err = "not found"
                 THEN /\ eventsSent = 0
                      /\ eventsSent' = 1
                      /\ errorCh' = Append(errorCh, "exited")
                      /\ monitorPC' = "returned"
                 ELSE /\ errorCh' = errorCh
                      /\ eventsSent' = eventsSent
                      /\ monitorPC' = "polling"]_vars

\* a Monitor has sent its event after ticks that sent none, and its
\* goroutine has ended
C29_Witness ==
    /\ eventsSent = 1
    /\ ticks = MaxTicks
    /\ monitorPC = "returned"

\* C30: when the monitor has put its exit event on the channel while the
\* sentinel is open and the exit handler waits under a context that is not
\* cancelled, the transport gets stopped: the sentinel is closed, IsRunning
\* answers false, the exit handler has returned and no caller of Stop is
\* left inside Stop
C30_ExitStopsTransport ==
    (errorCh # <<>> /\ eventsSent = 1 /\ ~shutdownCh /\ exitPC = "wait")
        ~> (/\ shutdownCh
            /\ ~IsRunning(shutdownCh)
            /\ exitPC = "returned"
            /\ \A c \in StopCallers : stPC[c] \in {"idle", "returned"})

\* the exit handler has stopped the transport, with the monitor that sent
\* the event, while an external Stop call found the sentinel closed
C30_Witness ==
    /\ eventsSent = 1
    /\ shutdownCh
    /\ exitPC = "returned"
    /\ {"shutdownCh", "monitor"} \subseteq did[ExitHandler]
    /\ \E c \in StopCallers \ {ExitHandler} : stPC[c] = "returned" /\ sawClosed[c] # "no"

(***************************************************************************)
(* Properties of the client channels and of the locks                      *)
(***************************************************************************)

\* C31: the message channel of a client is closed at most once: the
\* disconnect goroutine of a handler never closes a channel that is closed
\* already, whatever the fan-out did to that client before
C31_ClosedAtMostOnce ==
    [][\A h \in Handlers : handleSSEConnection_MonitorClose(h) => ~chClosed[h]]_vars

\* C32: ForwardResponseToClients acts on the clients of one instant: when it
\* has chosen the fan-out, sendSSEEvent finds a client to offer the message
\* to, and when it has chosen the pending list, the message is appended
\* before any connected client has drained that list, so that no message
\* is offered to nobody and none stays pending beside a streaming client
C32_ForwardAtomic ==
    [][/\ sendSSEEvent_Lock => sseClients # {}
       /\ ForwardResponseToClients_Queue
              => \A h \in sseClients : hPC[h] = "pending"]_vars

\* C33: no operation of the proxy waits on a channel while it holds the
\* mutex of the client set or of the pending list: the fan-out and the
\* drain give their mutex back, also when every queue is full, and a POST
\* that has passed the session check is answered
C33_NoSendUnderLock ==
    /\ (clientsLock = "reader") ~> (clientsLock = "free" \/ crashed)
    /\ (pendLock # 0) ~> (pendLock = 0 \/ crashed)
    /\ (inFlight # {}) ~> (inFlight = {} \/ crashed)

\* the fan-out holds the mutex of the client set and the queue of the
\* client it is about to visit is full
C33_Witness ==
    /\ clientsLock = "reader"
    /\ \E h \in todo : Len(MessageCh[h]) = QueueCap
    /\ ~crashed

\* C34: no goroutine sends on a closed client channel: a closed channel
\* is out of the client set, and neither the fan-out nor the drain of the
\* pending list sends on a channel that has been closed
C34_NoSendOnClosed ==
    /\ [](\A h \in Handlers : chClosed[h] => h \notin sseClients)
    /\ [][\A h \in Handlers :
             /\ sendSSEEvent_Send(h) => ~chClosed[h]
             /\ processPendingMessages_Send(h) => ~chClosed[h]]_vars

(***************************************************************************)
(* Properties of the stdout reader                                         *)
(***************************************************************************)

\* the line decodes, as it is or after the recovery
Parses(line) == parseLine(line) # NoMessage

\* C35: a line that cannot be parsed, even after the recovery, is forwarded
\* to nobody, and the lines that follow it are still parsed and forwarded:
\* the messages forwarded are those of the lines that parse, all of them
\* and in the order of the lines
C35_BadLineDropped ==
    LET good == SelectSeq(handed, Parses)
    IN  delivered = [i \in 1..Len(good) |-> parseLine(good[i])]

\* a line that does not parse has been handed to the parser and a line
\* after it has been forwarded
C35_Witness ==
    \E i, j \in 1..Len(handed) :
        /\ i < j
        /\ ~Parses(handed[i])
        /\ Parses(handed[j])
        /\ delivered # <<>>
        /\ delivered[Len(delivered)] = parseLine(handed[j])

\* the positions of the newlines of the bytes s
Newlines(s) == {i \in 1..Len(s) : s[i] = "\n"}

\* the k-th newline-terminated line of s, without its newline
TerminatedLine(s, k) ==
    LET e == CHOOSE i \in Newlines(s) : Cardinality({j \in Newlines(s) : j <= i}) = k
        b == IF k = 1 THEN 0
             ELSE CHOOSE i \in Newlines(s) : Cardinality({j \in Newlines(s) : j <= i}) = k - 1
    IN  SubSeq(s, b + 1, e - 1)

NonEmpty(line) == line # <<>>

\* the non-empty newline-terminated lines of s, in order
TerminatedLines(s) ==
    SelectSeq([k \in 1..Cardinality(Newlines(s)) |-> TerminatedLine(s, k)], NonEmpty)

\* the bytes of s after its last newline
Unterminated(s) ==
    IF Newlines(s) = {} THEN s
    ELSE SubSeq(s, (CHOOSE i \in Newlines(s) : \A j \in Newlines(s) : j <= i) + 1, Len(s))

\* C39: the lines handed to the parser depend on the bytes read and not on
\* how the reads split them: after any reads, the lines handed are the
\* non-empty newline-terminated lines of the bytes read so far, in order,
\* and the buffer keeps the bytes after the last newline
C39_SplitIndependent ==
    /\ handed = TerminatedLines(consumed)
    /\ buffer = Unterminated(consumed)

\* a line has been handed to the parser that reached the reader in two
\* reads: the bytes kept from an earlier read and the rest of the line
C39_Witness ==
    /\ joined > 0
    /\ Len(handed) >= 2
    /\ buffer # <<>>

\* an outbound section that is present, without insecure_allow_all and with
\* three empty lists
EmptyOutbound(networkPermissions) ==
    /\ ~networkPermissions.isNil
    /\ ~networkPermissions.Outbound.isNil
    /\ ~networkPermissions.Outbound.InsecureAllowAll
    /\ networkPermissions.Outbound.AllowPort = <<>>
    /\ networkPermissions.Outbound.AllowHost = <<>>
    /\ networkPermissions.Outbound.AllowTransport = <<>>

\* the tokens of a document that begin an http_access rule
AccessRules(doc) ==
    {i \in 1..Len(doc) : doc[i] \in {"http_access allow", "http_access allow all",
                                     "http_access allow site_", "http_access deny all"}}

\* C40: for an outbound section that is present with insecure_allow_all
\* false and allow_port, allow_host and allow_transport all empty, the
\* document has no egress "http_access allow" rule: its access rules are
\* one accelerator rule "http_access allow site_<port>" for each ingress
\* port and, as the last line, "http_access deny all".
C40_EmptyListsDenyAll ==
    (aclPC # "call" /\ EmptyOutbound(aclIn.networkPermissions)) =>
        /\ aclPC = "done"
        /\ \A i \in AccessRules(squidConf) :
               squidConf[i] \in {"http_access allow site_", "http_access deny all"}
        /\ Cardinality({i \in AccessRules(squidConf) : squidConf[i] = "http_access allow site_"})
               = Cardinality(aclIn.ingressPorts)
        /\ {i \in AccessRules(squidConf) : squidConf[i] = "http_access deny all"}
               = {Len(squidConf) - 1}
        /\ \A i \in 1..Len(squidConf) :
               squidConf[i] \notin {"allowed_ports", "allowed_dsts", "allowed_methods"}

\* a document was written for such a section and two ingress ports
C40_Witness ==
    /\ aclPC = "done"
    /\ EmptyOutbound(aclIn.networkPermissions)
    /\ Cardinality(aclIn.ingressPorts) = 2

\* C37, as stated: under any calls of StartMonitoring and StopMonitoring on
\* one Monitor, close(m.stopCh) is executed at most once and at most one
\* monitor goroutine is alive.
C37_OneCloseOnePoller ==
    /\ m_closes <= 1
    /\ m_wg <= 1

\* the half of C37 that the code keeps: never two monitor goroutines
C37_OnePoller == m_wg <= 1

\* the goroutine is alive
Alive(pc) == pc \notin {"none", "returned"}

\* C38, as stated: when Start returns an error, nothing it started is left
\* running: the HTTP listener of the proxy is not serving and neither the
\* goroutine processMessages nor the stdout reader is alive.
C38_FailedStartLeavesNothing ==
    [][\A f \in StartFaults, r \in inspect(t_up) :
          (Start(f, r) /\ t_start' = "error") =>
              /\ t_listener' # "serving"
              /\ ~Alive(t_pm')
              /\ ~Alive(t_reader')]_vars

\* every goroutine of the transport has ended
AllTerminated ==
    /\ ~Alive(t_pm)
    /\ ~Alive(t_waiter)
    /\ ~Alive(t_reader)
    /\ ~Alive(t_poller)
    /\ ~Alive(t_exit)

\* C36, as stated: once a Stop has completed, or the context has been
\* cancelled, processMessages, processStdout, the shutdown waiter, the
\* monitor goroutine and handleContainerExit all terminate.
C36_TasksTerminate == (t_stopped \/ t_ctx) ~> AllTerminated

\* C36 with both a completed Stop and a cancelled context
C36_StopAndCancel == (t_stopped /\ t_ctx) ~> AllTerminated

\* C36 with both, for a container that Stop has stopped
C36_StopCancelContainerDown == (t_stopped /\ t_ctx /\ ~t_up) ~> AllTerminated

====
